---- MODULE Spec2Model ----
(***************************************************************************)
(* Model of FormulusWebViewMessageManager (FormulusWebViewHandler.ts):     *)
(* the request/response correlation between the host application and the   *)
(* embedded content view.  One manager instance, its readiness gate, its   *)
(* message queue, its table of pending requests, the deadline timers it    *)
(* arms, and the scripts it injects into the content view.                 *)
(***************************************************************************)
EXTENDS Integers, Sequences, FiniteSets, TLC

(* ------------------------------ bounds -------------------------------- *)
\* number of send() calls issued over a run
MaxCalls == 3
\* number of distinct values Math.random() can yield in the model
MaxRand == 2
\* number of times the clock advances (by one deadline) over a run
MaxTicks == 1
\* number of inbound action messages over a run
MaxActions == 1
\* inbound actions are interleaved with runs of at most this many send() calls
MaxMixedCalls == 1

(* ------------------------- program constants -------------------------- *)
REQUEST_TIMEOUT == 30000

(* ------------------------------ strings ------------------------------- *)
\* a string whose characters the code inspects is the sequence of them
LowerCase ==
  <<"a", "b", "c", "d", "e", "f", "g", "h", "i", "j", "k", "l", "m", "n",
    "o", "p", "q", "r", "s", "t", "u", "v", "w", "x", "y", "z">>
UpperCase ==
  <<"A", "B", "C", "D", "E", "F", "G", "H", "I", "J", "K", "L", "M", "N",
    "O", "P", "Q", "R", "S", "T", "U", "V", "W", "X", "Y", "Z">>

\* a toUpperCase that leaves every character as it is
ToUpperCaseIdentity(c) == c

\* toUpperCase() of one character
ToUpperCase(c) ==
  IF \E i \in 1..Len(LowerCase) : LowerCase[i] = c
  THEN UpperCase[CHOOSE i \in 1..Len(LowerCase) : LowerCase[i] = c]
  ELSE c

\* a startsWith that never matches
StartsWithNever(s, prefix) == FALSE

\* s.startsWith(prefix)
StartsWith(s, prefix) ==
  Len(s) >= Len(prefix) /\ SubSeq(s, 1, Len(prefix)) = prefix

\* the message types handleWebViewMessage tells apart
formplayerReadyToReceiveInit ==
  <<"f", "o", "r", "m", "p", "l", "a", "y", "e", "r", "R", "e", "a", "d",
    "y", "T", "o", "R", "e", "c", "e", "i", "v", "e", "I", "n", "i", "t">>
response == <<"r", "e", "s", "p", "o", "n", "s", "e">>
consoleDot == <<"c", "o", "n", "s", "o", "l", "e", ".">>
console == <<"c", "o", "n", "s", "o", "l", "e">>
\* an absent type and the empty string: both falsy
NoType == <<>>
\* the verbs of the inbound actions the model considers
requestCamera ==
  <<"r", "e", "q", "u", "e", "s", "t", "C", "a", "m", "e", "r", "a">>
noSuchVerb == <<"n", "o", "S", "u", "c", "h", "V", "e", "r", "b">>
\* handler names
onRequestCamera ==
  <<"o", "n", "R", "e", "q", "u", "e", "s", "t", "C", "a", "m", "e", "r",
    "a">>
onUnknownMessage ==
  <<"o", "n", "U", "n", "k", "n", "o", "w", "n", "M", "e", "s", "s", "a",
    "g", "e">>
onFormulusReady ==
  <<"o", "n", "F", "o", "r", "m", "u", "l", "u", "s", "R", "e", "a", "d",
    "y">>
onReceiveFocus ==
  <<"o", "n", "R", "e", "c", "e", "i", "v", "e", "F", "o", "c", "u", "s">>
\* no handler
NoHandler == <<>>
\* an absent error
NoError == <<>>

(* --------------------------- value domains ---------------------------- *)
Calls == 1..MaxCalls
RandPool == 0..(MaxRand - 1)
\* JavaScript undefined, for string-valued fields and for tokens
Undefined == "undefined"
NoToken == <<>>
\* a correlation token that send() never mints (its clock part is negative)
UnknownId == <<0, -1>>
\* the messageId the content side puts on an inbound action
ActionMessageId == <<7, -7>>
CallbackNames == {"onFormInit"}
EmptyMap == [x \in {} |-> x]
Payloads == {"d1"}
Results == {"r1"}
Errors == {"E", "", Undefined}
ActionTypes == {requestCamera, noSuchVerb}

VARIABLES
  isWebViewReady,   \* the readiness gate
  messageQueue,     \* calls captured while the gate is closed
  pendingRequests,  \* requestId -> [call, timeout]
  nativeSideHandlers, \* names of the host-side handlers that exist
  webViewRef,       \* TRUE iff webViewRef.current is not null
  timers,           \* armed deadline timers (setTimeout not yet fired/cleared)
  injected,         \* scripts handed to injectJavaScript, in order
  promise,          \* per send() call: the promise returned to the caller
  nextCall,         \* number of the next send() call
  now,              \* Date.now()
  actions,          \* inbound actions whose handler has not settled yet
  nextAction,       \* number of the next inbound action
  isFocused,        \* CustomAppWebView: useIsFocused()
  injectionScript,  \* CustomAppWebView: the injectionScript state
  hasLoadedOnce,    \* CustomAppWebView: hasLoadedOnceRef.current
  formulusDefined,  \* content side: window.formulus / globalThis.formulus exists
  appState,         \* the host application's AppState
  modal,            \* FormplayerModal: its state, timers and alerts, and the
                    \* completion results it has handed to the message handlers
  submissions,      \* FormplayerModal: handleSubmission calls awaiting the repository
  nextSubmission,   \* number of the next handleSubmission call
  nextOperation,    \* number of the next form operation
  opens,            \* how often the modal has been shown
  player            \* the formplayer page: the App component's state, the
                    \* window.onFormInit global and the messages it has posted

\* the state of the components around the manager
componentVars == <<isFocused, injectionScript, hasLoadedOnce, formulusDefined,
                   appState>>

\* the state of the form modal
modalVars == <<modal, submissions, nextSubmission, nextOperation, opens>>

\* the state of the formplayer page
playerVars == <<player>>

vars == <<isWebViewReady, messageQueue, pendingRequests, nativeSideHandlers,
          webViewRef, timers, injected, promise, nextCall, now,
          actions, nextAction, componentVars, modalVars, playerVars>>

(* ------------------------- JavaScript helpers ------------------------- *)
\* truthiness of a string-valued field (undefined and '' are falsy)
Truthy(v) == v # Undefined /\ v # ""

\* object.k, or what an absent field reads as
Field(object, k, absent) ==
  IF k \in DOMAIN object THEN object[k] ELSE absent

\* a || b on tokens
OrToken(a, b) == IF a # NoToken THEN a ELSE b

\* invoking the resolve or reject continuation of a call's promise: only the
\* first invocation settles the promise, every invocation is counted
Settle(p, c, kind, value) ==
  [p EXCEPT ![c] = [state |-> IF @.state = "pending" THEN kind ELSE @.state,
                    value |-> IF @.state = "pending" THEN value ELSE @.value,
                    settles |-> @.settles + 1]]

\* Map.set
MapSet(map, k, v) == [x \in (DOMAIN map) \cup {k} |-> IF x = k THEN v ELSE map[x]]

\* Map.delete
MapDelete(map, k) == [x \in (DOMAIN map) \ {k} |-> map[x]]

\* clearTimeout(handle)
ClearTimeout(ts, handle) == {t \in ts : t.handle # handle}

(* ------------------------- the manager's state ------------------------ *)
\* the part of the state the manager's methods read and write
Manager ==
  [isWebViewReady |-> isWebViewReady, messageQueue |-> messageQueue,
   pendingRequests |-> pendingRequests, timers |-> timers,
   injected |-> injected, promise |-> promise]

Commit(m) ==
  /\ isWebViewReady' = m.isWebViewReady
  /\ messageQueue' = m.messageQueue
  /\ pendingRequests' = m.pendingRequests
  /\ timers' = m.timers
  /\ injected' = m.injected
  /\ promise' = m.promise

(* ------------------------------ methods ------------------------------- *)
\* a queueMessage that arms the deadline timer when the call is queued
queueMessageWithDeadline(m, callbackName, data, call) ==
  [m EXCEPT !.messageQueue =
              Append(@, [callbackName |-> callbackName, data |-> data, call |-> call]),
            !.timers = @ \cup {[handle |-> call, requestId |-> <<0, now>>,
                                callbackName |-> callbackName,
                                deadline |-> now + REQUEST_TIMEOUT]}]

\* queueMessage: push at the tail
queueMessage(m, callbackName, data, call) ==
  [m EXCEPT !.messageQueue =
     Append(@, [callbackName |-> callbackName, data |-> data, call |-> call])]

\* a sendToWebViewInternal that injects without looking at the reference
sendToWebViewInternalUnchecked(m, callbackName, data, requestId, call) ==
  [m EXCEPT !.injected =
     Append(@, [kind |-> "call", callbackName |-> callbackName,
                data |-> data, requestId |-> requestId, call |-> call])]

\* a sendToWebViewInternal that rejects without deleting the entry
sendToWebViewInternalNoDelete(m, callbackName, data, requestId, call) ==
  IF ~webViewRef
  THEN IF requestId \in DOMAIN m.pendingRequests
       THEN [m EXCEPT
               !.promise = Settle(@, m.pendingRequests[requestId].call,
                                  "rejected", <<"WebView reference is null">>)]
       ELSE m
  ELSE [m EXCEPT !.injected =
          Append(@, [kind |-> "call", callbackName |-> callbackName,
                     data |-> data, requestId |-> requestId, call |-> call])]

\* sendToWebViewInternal: reject the pending request when the content view
\* reference is null, else inject the call script
sendToWebViewInternal(m, callbackName, data, requestId, call) ==
  IF ~webViewRef
  THEN IF requestId \in DOMAIN m.pendingRequests
       THEN [m EXCEPT
               !.promise = Settle(@, m.pendingRequests[requestId].call,
                                  "rejected", <<"WebView reference is null">>),
               !.pendingRequests = MapDelete(@, requestId)]
       ELSE m
  ELSE [m EXCEPT !.injected =
          Append(@, [kind |-> "call", callbackName |-> callbackName,
                     data |-> data, requestId |-> requestId, call |-> call])]

\* requestId = Math.random().toString(36).substring(2, 15) + Date.now():
\* the random part followed by the clock (the clock part has a fixed width,
\* so the concatenation determines both parts)
MintRequestId(rand) == <<rand, now>>

\* send with the gate open: mint a requestId, arm the deadline timer,
\* register the pending request (Map.set replaces an entry with the same key)
\* and inject
dispatch(m, callbackName, data, call, rand) ==
  LET requestId == MintRequestId(rand)
      timeout == [handle |-> call, requestId |-> requestId,
                  callbackName |-> callbackName,
                  deadline |-> now + REQUEST_TIMEOUT]
      m1 == [m EXCEPT
               !.timers = @ \cup {timeout},
               !.pendingRequests =
                  MapSet(@, requestId, [call |-> call, timeout |-> call])]
  IN sendToWebViewInternal(m1, callbackName, data, requestId, call)

\* a send that does not look at the gate
sendUngated(m, callbackName, data, call, rand) ==
  dispatch(m, callbackName, data, call, rand)

\* send: queue while the gate is closed, else dispatch
send(m, callbackName, data, call, rand) ==
  IF ~m.isWebViewReady
  THEN queueMessage(m, callbackName, data, call)
  ELSE dispatch(m, callbackName, data, call, rand)

\* a sendFormInit that sends whatever the form data holds
sendFormInitUnchecked(m, formData, call, rand) ==
  [manager |-> send(m, "onFormInit", formData, call, rand), threw |-> FALSE]

\* sendFormInit: throws when formData has no form type, else
\* send('onFormInit', formData)
sendFormInit(m, formData, call, rand) ==
  IF ~Truthy(Field(formData, "formType", Undefined))
  THEN [manager |-> m, threw |-> TRUE]
  ELSE [manager |-> send(m, "onFormInit", formData, call, rand), threw |-> FALSE]

\* a flush that takes the newest queued message first
PopIndex(queue) == Len(queue)

\* the element of the queue that shift() removes
ShiftIndex(queue) == 1

\* a flush that dispatches the head of the queue and leaves the queue as
\* it was
processMessageQueueKeepsQueue(m, rands) ==
  IF Len(m.messageQueue) = 0
  THEN m
  ELSE LET message == Head(m.messageQueue)
       IN [send([m EXCEPT !.messageQueue = Tail(@)],
                message.callbackName, message.data, message.call, Head(rands))
             EXCEPT !.messageQueue = m.messageQueue]

\* a flush that dispatches the head of the queue and stops
processMessageQueueHeadOnly(m, rands) ==
  IF Len(m.messageQueue) = 0
  THEN m
  ELSE LET message == Head(m.messageQueue)
       IN send([m EXCEPT !.messageQueue = Tail(@)],
               message.callbackName, message.data, message.call, Head(rands))

\* processMessageQueue: while the queue is not empty, shift() and send();
\* the promise of the inner send is chained to the queued continuations, so
\* the queued call keeps its identity.  rands are the Math.random() draws.
RECURSIVE processMessageQueue(_, _)
processMessageQueue(m, rands) ==
  IF Len(m.messageQueue) = 0
  THEN m
  ELSE LET i == ShiftIndex(m.messageQueue)
           message == m.messageQueue[i]
           rest == [k \in 1..(Len(m.messageQueue) - 1) |->
                      IF k < i THEN m.messageQueue[k] ELSE m.messageQueue[k + 1]]
           m1 == [m EXCEPT !.messageQueue = rest]
       IN processMessageQueue(
            send(m1, message.callbackName, message.data, message.call, Head(rands)),
            Tail(rands))

\* a setWebViewReady that forgets to raise the flag
setWebViewReadyNoFlag(m, isReady, rands) ==
  IF isReady THEN m ELSE [m EXCEPT !.isWebViewReady = FALSE]

\* setWebViewReady
setWebViewReady(m, isReady, rands) ==
  LET m1 == [m EXCEPT !.isWebViewReady = isReady]
  IN IF isReady THEN processMessageQueue(m1, rands) ELSE m1

\* a handleResponse that leaves the deadline timer armed
handleResponseNoClear(m, messageId, result, error) ==
  IF messageId \notin DOMAIN m.pendingRequests
  THEN m
  ELSE LET pendingRequest == m.pendingRequests[messageId]
       IN [m EXCEPT
             !.promise = IF Truthy(error)
                         THEN Settle(@, pendingRequest.call, "rejected", <<error>>)
                         ELSE Settle(@, pendingRequest.call, "resolved", <<result>>),
             !.pendingRequests = MapDelete(@, messageId)]

\* a handleResponse that leaves the entry in the table
handleResponseNoDelete(m, messageId, result, error) ==
  IF messageId \notin DOMAIN m.pendingRequests
  THEN m
  ELSE LET pendingRequest == m.pendingRequests[messageId]
       IN [m EXCEPT
             !.timers = ClearTimeout(@, pendingRequest.timeout),
             !.promise = IF Truthy(error)
                         THEN Settle(@, pendingRequest.call, "rejected", <<error>>)
                         ELSE Settle(@, pendingRequest.call, "resolved", <<result>>)]

\* handleResponse
handleResponse(m, messageId, result, error) ==
  IF messageId \notin DOMAIN m.pendingRequests
  THEN m
  ELSE LET pendingRequest == m.pendingRequests[messageId]
       IN [m EXCEPT
             !.timers = ClearTimeout(@, pendingRequest.timeout),
             !.promise = IF Truthy(error)
                         THEN Settle(@, pendingRequest.call, "rejected", <<error>>)
                         ELSE Settle(@, pendingRequest.call, "resolved", <<result>>),
             !.pendingRequests = MapDelete(@, messageId)]

\* the callback of the deadline timer armed by send
timeoutCallback(m, t) ==
  LET m1 == [m EXCEPT !.timers = @ \ {t}]
  IN IF t.requestId \in DOMAIN m1.pendingRequests
     THEN [m1 EXCEPT
             !.promise = Settle(@, m1.pendingRequests[t.requestId].call, "rejected",
                                <<"Request timed out for ", t.callbackName>>),
             !.pendingRequests = MapDelete(@, t.requestId)]
     ELSE m1

\* reset: the continuations rejected by the forEach
ResetRejected(m) == {m.pendingRequests[k].call : k \in DOMAIN m.pendingRequests}

RECURSIVE RejectAll(_, _, _)
RejectAll(p, cs, reason) ==
  IF cs = {} THEN p
  ELSE LET c == CHOOSE x \in cs : TRUE
       IN RejectAll(Settle(p, c, "rejected", reason), cs \ {c}, reason)

\* reset
reset(m) ==
  [m EXCEPT
     !.timers = {t \in @ : \A k \in DOMAIN m.pendingRequests :
                              m.pendingRequests[k].timeout # t.handle},
     !.promise = RejectAll(@, ResetRejected(m), <<"WebViewMessageManager reset">>),
     !.pendingRequests = EmptyMap,
     !.messageQueue = <<>>,
     !.isWebViewReady = FALSE]

(* ------------------------------- Init --------------------------------- *)
\* createFormulusMessageHandlers(): the handler sets the model considers
FullRegistry == {onRequestCamera, onUnknownMessage, onFormulusReady, onReceiveFocus}
Registries == {FullRegistry, {onRequestCamera}}

\* null
Null == "null"

\* FormplayerModal as constructed: the useState and useRef initial values;
\* closeTimer is closeTimeoutRef, resetTimers counts the armed reset timers
\* of the hidden modal, successAlerts the success alerts awaiting OK, and
\* resolutions holds the calls made to resolveFormOperation and
\* resolveFormOperationByType, in order
InitialModal ==
  [visible |-> FALSE, isSubmitting |-> FALSE, isClosing |-> FALSE,
   formSubmitted |-> FALSE, currentFormType |-> Null,
   currentObservationId |-> Null, currentOperationId |-> Null,
   closeTimer |-> FALSE, resetTimers |-> 0, successAlerts |-> 0,
   resolutions |-> <<>>]

\* a null UI schema
NoSchema == <<>>

\* the formplayer page before the App component mounts: window.onFormInit is
\* undefined, nothing was posted, no injected script has run; uischema,
\* isLoading and loadError are the App's useState values, initTimeout tells
\* whether the 10 s timer is armed
\* no form init data yet
NoInitData == <<>>
InitialPlayer ==
  [mounted |-> FALSE, onFormInit |-> FALSE, posted |-> <<>>, ran |-> 0,
   formInitData |-> NoInitData, uischema |-> NoSchema, isLoading |-> TRUE,
   loadError |-> FALSE, initTimeout |-> FALSE, mounts |-> 0]

Init ==
  /\ isWebViewReady = FALSE
  /\ messageQueue = <<>>
  /\ pendingRequests = EmptyMap
  /\ nativeSideHandlers \in Registries
  /\ webViewRef = FALSE
  /\ timers = {}
  /\ injected = <<>>
  /\ promise = [c \in Calls |-> [state |-> "unissued", value |-> <<>>, settles |-> 0]]
  /\ nextCall = 1
  /\ now = 0
  /\ actions = {}
  /\ nextAction = 1
  /\ isFocused = TRUE
  /\ injectionScript = "consoleLogScript"
  /\ hasLoadedOnce = FALSE
  /\ formulusDefined = FALSE
  /\ appState = "active"
  /\ modal = InitialModal
  /\ submissions = {}
  /\ nextSubmission = 1
  /\ nextOperation = 1
  /\ opens = 0
  /\ player = InitialPlayer

(* ------------------------------ actions ------------------------------- *)
\* the promise executor of send() runs: the call's promise now exists
Issued(m, c) == [m EXCEPT !.promise[c].state = "pending"]

\* a caller invokes send(callbackName, data); runs with more than
\* MaxMixedCalls calls are explored without inbound actions and with the
\* full handler registry
Send ==
  /\ nextCall <= MaxCalls
  /\ nextCall <= MaxMixedCalls \/ (nextAction = 1 /\ nativeSideHandlers = FullRegistry)
  /\ \E callbackName \in CallbackNames, data \in Payloads, rand \in RandPool :
       Commit(send(Issued(Manager, nextCall), callbackName, data, nextCall, rand))
  /\ nextCall' = nextCall + 1
  /\ UNCHANGED <<nativeSideHandlers, webViewRef, now, actions, nextAction>>
  /\ UNCHANGED <<componentVars, modalVars, playerVars>>

\* the sequences of Math.random() draws of one flush
RandSeqs(n) == [1..n -> RandPool]

\* the host calls the public setWebViewReady(isReady)
SetWebViewReady ==
  /\ \E isReady \in BOOLEAN, rands \in RandSeqs(Len(messageQueue)) :
       Commit(setWebViewReady(Manager, isReady, rands))
  /\ UNCHANGED <<nativeSideHandlers, webViewRef, nextCall, now, actions, nextAction>>
  /\ UNCHANGED <<componentVars, modalVars, playerVars>>

\* a handleReadySignal that notifies the hook before it opens the gate
handleReadySignalHookFirst(m, rands, hookThrows) ==
  [manager |-> setWebViewReady(m, TRUE, rands),
   hookSaw |-> IF onFormulusReady \in nativeSideHandlers THEN <<m>> ELSE <<>>,
   escaped |-> FALSE]

\* one run of handleReadySignal: setWebViewReady(true), then the
\* onFormulusReady handler, if there is one, inside try/catch; hookSaw is
\* the manager as it is when the handler is called (no handler: the empty
\* sequence), escaped tells whether what the handler threw left the method
handleReadySignalRun(m, rands, hookThrows) ==
  LET m1 == setWebViewReady(m, TRUE, rands)
  IN [manager |-> m1,
      hookSaw |-> IF onFormulusReady \in nativeSideHandlers THEN <<m1>> ELSE <<>>,
      escaped |-> FALSE]

\* handleReadySignal: what it does to the manager (the onFormulusReady
\* handler has no access to the manager)
handleReadySignal(m, rands) == handleReadySignalRun(m, rands, FALSE).manager

\* the correlation tokens an inbound response may carry
ResponseTokens ==
  (DOMAIN pendingRequests) \cup {t.requestId : t \in timers}
    \cup {injected[i].requestId : i \in {j \in 1..Len(injected) : injected[j].kind = "call"}}
    \cup {UnknownId}

\* the (messageId, payload.requestId) pairs an inbound response may carry
ResponseFields ==
  {<<t, NoToken>> : t \in ResponseTokens}
    \cup {<<NoToken, t>> : t \in DOMAIN pendingRequests}
    \cup {<<UnknownId, t>> : t \in DOMAIN pendingRequests}
    \cup {<<NoToken, NoToken>>}

\* a 'response' branch that tries payload.requestId when messageId is unknown
handleResponseMessageEither(m, messageId, requestId, result, error) ==
  LET actualRequestId == IF messageId \in DOMAIN m.pendingRequests
                         THEN messageId ELSE requestId
  IN IF actualRequestId # NoToken
     THEN handleResponse(m, actualRequestId, result, error)
     ELSE m

\* a 'response' branch that gives a response without a token to the oldest
\* pending request
handleResponseMessageAnyPending(m, messageId, requestId, result, error) ==
  LET actualRequestId == OrToken(messageId, requestId)
  IN IF actualRequestId # NoToken
     THEN handleResponse(m, actualRequestId, result, error)
     ELSE IF DOMAIN m.pendingRequests # {}
     THEN handleResponse(m, CHOOSE k \in DOMAIN m.pendingRequests : TRUE, result, error)
     ELSE m

\* handleWebViewMessage, the branch of type 'response'
handleResponseMessage(m, messageId, requestId, result, error) ==
  LET actualRequestId == OrToken(messageId, requestId)
  IN IF actualRequestId # NoToken
     THEN handleResponse(m, actualRequestId, result, error)
     ELSE m

\* const { type, messageId, ...payload } = eventData: the rest of the fields
RestPayload(eventData) ==
  [k \in (DOMAIN eventData) \ {"type", "messageId"} |-> eventData[k]]

\* a type test that lets every message through
TruthyTypeAlways(type) == TRUE

\* the test  if (!type)  negated
TruthyType(type) == type # NoType

\* a test for 'console.<level>' that never matches
IsConsoleLevelNever(type) == FALSE

\* type.startsWith('console.')
IsConsoleLevel(type) == StartsWith(type, consoleDot)

\* what one run of handleWebViewMessage leaves behind: the manager's state,
\* the logging sink written to, the action handed to handleIncomingAction
\* (none: the empty sequence), and whether an exception was thrown
Outcome(m, sink, routed, threw) ==
  [manager |-> m, sink |-> sink, routed |-> routed, threw |-> threw]

\* the body of the try block of handleWebViewMessage; an event is the
\* text of a message: json tells whether JSON.parse accepts it, value is
\* what it parses to
handleWebViewMessageTry(m, event, rands) ==
  IF ~event.json
  THEN Outcome(m, "none", <<>>, TRUE)
  ELSE
    LET eventData == event.value
        type == Field(eventData, "type", NoType)
        messageId == Field(eventData, "messageId", NoToken)
        payload == RestPayload(eventData)
    IN IF ~TruthyType(type)
       THEN Outcome(m, "warn", <<>>, FALSE)
       ELSE IF type = formplayerReadyToReceiveInit
       THEN Outcome(handleReadySignal(m, rands), "log", <<>>, FALSE)
       ELSE IF type = response
       THEN Outcome(handleResponseMessage(m, messageId,
                                          Field(payload, "requestId", NoToken),
                                          Field(payload, "result", Undefined),
                                          Field(payload, "error", Undefined)),
                    IF OrToken(messageId, Field(payload, "requestId", NoToken)) # NoToken
                    THEN "log" ELSE "warn",
                    <<>>, FALSE)
       ELSE IF IsConsoleLevel(type)
       THEN Outcome(m, "log", <<>>, FALSE)
       ELSE IF type = console
       THEN IF "args" \in DOMAIN payload
            THEN Outcome(m, "log", <<>>, FALSE)
            ELSE Outcome(m, "none", <<>>, TRUE)
       ELSE Outcome(m, "log",
                    <<[type |-> type, data |-> payload, messageId |-> messageId]>>,
                    FALSE)

\* handleWebViewMessage: the try block, and the catch that logs what it threw
handleWebViewMessage(m, event, rands) ==
  LET tried == handleWebViewMessageTry(m, event, rands)
  IN IF tried.threw
     THEN Outcome(tried.manager, "error", tried.routed, FALSE)
     ELSE tried

\* what the content side can make of an injected call: the function named
\* after the callback is missing, or it returns a value (at once or through
\* a promise), throws a string, or returns a promise rejected with a string
RemoteBehaviours ==
  {[defined |-> FALSE, settles |-> "never", value |-> Undefined]}
    \cup {[defined |-> TRUE, settles |-> "returns", value |-> v] :
            v \in Results \cup {Undefined}}
    \cup {[defined |-> TRUE, settles |-> k, value |-> v] :
            k \in {"throws", "rejects"}, v \in {"E", ""}}

\* String(error) of a string
StringOf(v) == v

\* a || b on strings
OrString(a, b) == IF a # "" THEN a ELSE b

\* 'Callback ${callbackName} not found'
CallbackNotFound(callbackName) ==
  CASE callbackName = "onFormInit" -> "Callback onFormInit not found"

\* 'Unknown error in ${callbackName}'
UnknownErrorIn(callbackName) ==
  CASE callbackName = "onFormInit" -> "Unknown error in onFormInit"

\* the message a response envelope of the call script is posted as
\* (JSON.stringify leaves out an undefined result)
PostedResult(requestId, result) ==
  [json |-> TRUE,
   value |-> IF result = Undefined
             THEN [type |-> response, requestId |-> requestId]
             ELSE [type |-> response, requestId |-> requestId, result |-> result]]

PostedError(requestId, error) ==
  [json |-> TRUE,
   value |-> [type |-> response, requestId |-> requestId, error |-> error]]

\* the injected call script run by the content view: the messages it posts
RunCallScript(script, remote) ==
  IF ~remote.defined
  THEN <<PostedError(script.requestId, CallbackNotFound(script.callbackName))>>
  ELSE IF remote.settles = "returns"
  THEN <<PostedResult(script.requestId, remote.value)>>
  ELSE IF remote.settles = "rejects"
  THEN <<PostedError(script.requestId, StringOf(remote.value))>>
  ELSE <<PostedError(script.requestId,
                     OrString(StringOf(remote.value),
                              UnknownErrorIn(script.callbackName)))>>

\* messages reach handleWebViewMessage through the onMessage property of the
\* mounted content view: the actions below require webViewRef

\* the message that announces readiness
ReadyEvent ==
  [json |-> TRUE, value |-> [type |-> formplayerReadyToReceiveInit]]

\* handleWebViewMessage, type 'formplayerReadyToReceiveInit'
HandleReadySignal ==
  /\ webViewRef
  /\ \E rands \in RandSeqs(Len(messageQueue)) :
       Commit(handleWebViewMessage(Manager, ReadyEvent, rands).manager)
  /\ UNCHANGED <<nativeSideHandlers, webViewRef, nextCall, now, actions, nextAction>>
  /\ UNCHANGED <<componentVars, modalVars, playerVars>>

\* a message of type 'response'
ResponseEvent(messageId, requestId, result, error) ==
  [json |-> TRUE,
   value |-> [type |-> response, messageId |-> messageId, requestId |-> requestId,
              result |-> result, error |-> error]]

\* handleWebViewMessage, type 'response'
HandleResponseMessage ==
  /\ webViewRef
  /\ \E f \in ResponseFields, result \in Results, error \in Errors :
       Commit(handleWebViewMessage(Manager, ResponseEvent(f[1], f[2], result, error),
                                   <<>>).manager)
  /\ UNCHANGED <<nativeSideHandlers, webViewRef, nextCall, now, actions, nextAction>>
  /\ UNCHANGED <<componentVars, modalVars, playerVars>>

\* text that JSON.parse rejects, and messages without a type or with an
\* empty one, among them responses to pending requests that lost their type
MalformedEvents ==
  {[json |-> FALSE, value |-> EmptyMap],
   [json |-> TRUE, value |-> EmptyMap],
   [json |-> TRUE, value |-> [type |-> NoType, messageId |-> ActionMessageId]]}
    \cup {[json |-> TRUE, value |-> [messageId |-> k, requestId |-> k, result |-> "r1"]] :
            k \in DOMAIN pendingRequests}

\* handleWebViewMessage: a malformed message
HandleMalformedMessage ==
  /\ webViewRef
  /\ \E event \in MalformedEvents :
       Commit(handleWebViewMessage(Manager, event, <<>>).manager)
  /\ UNCHANGED <<nativeSideHandlers, webViewRef, nextCall, now, actions, nextAction>>
  /\ UNCHANGED <<componentVars, modalVars, playerVars>>

\* log messages: 'console.<level>' with and without arguments, and 'console'
\* with level and arguments, with a messageId, and without arguments
ConsoleEvents ==
  {[json |-> TRUE, value |-> [type |-> consoleDot \o <<"l", "o", "g">>, args |-> <<"a">>]],
   [json |-> TRUE, value |-> [type |-> consoleDot \o <<"x">>]],
   [json |-> TRUE, value |-> [type |-> console, level |-> "warn", args |-> <<"a">>]],
   [json |-> TRUE, value |-> [type |-> console, messageId |-> ActionMessageId,
                              args |-> <<"a">>]],
   [json |-> TRUE, value |-> [type |-> console]]}
    \cup {[json |-> TRUE, value |-> [type |-> consoleDot \o <<"l", "o", "g">>,
                                     messageId |-> k, requestId |-> k, result |-> "r1"]] :
            k \in DOMAIN pendingRequests}

\* handleWebViewMessage, types 'console.<level>' and 'console'
HandleConsoleMessage ==
  /\ webViewRef
  /\ \E event \in ConsoleEvents :
       Commit(handleWebViewMessage(Manager, event, <<>>).manager)
  /\ UNCHANGED <<nativeSideHandlers, webViewRef, nextCall, now, actions, nextAction>>
  /\ UNCHANGED <<componentVars, modalVars, playerVars>>

\* type.charAt(0).toUpperCase() + type.slice(1)
Capitalize(type) ==
  IF type = <<>> THEN <<>> ELSE <<ToUpperCase(Head(type))>> \o Tail(type)

\* handlerName = 'on' + type with its first letter upper-cased
HandlerName(type) == <<"o", "n">> \o Capitalize(type)

\* { type, ...data, messageId }: what onUnknownMessage is called with
UnknownMessage(type, data, messageId) ==
  [k \in {"type", "messageId"} \cup DOMAIN data |->
     IF k = "messageId" THEN messageId
     ELSE IF k \in DOMAIN data THEN data[k]
     ELSE type]

\* handleIncomingAction up to the await: the handler picked, what it is
\* called with, and the error recorded when there is none
PickHandler(type, data, messageId) ==
  IF HandlerName(type) \in nativeSideHandlers
  THEN [handler |-> HandlerName(type), argument |-> data, error |-> NoError]
  ELSE IF onUnknownMessage \in nativeSideHandlers
  THEN [handler |-> onUnknownMessage,
        argument |-> UnknownMessage(type, data, messageId), error |-> NoError]
  ELSE [handler |-> NoHandler, argument |-> EmptyMap,
        error |-> <<"No handler for message type ", type>>]

\* a responsePayload that keeps the verb as its type
ResponseEnvelopeBareType(type, messageId, result, error) ==
  [kind |-> "response", type |-> type,
   messageId |-> messageId, result |-> result, error |-> error]

\* responsePayload
ResponseEnvelope(type, messageId, result, error) ==
  [kind |-> "response", type |-> type \o <<"_", "r", "e", "s", "p", "o", "n", "s", "e">>,
   messageId |-> messageId, result |-> result, error |-> error]

\* a tail that responds whether or not there was a messageId
respondAlways(inj, type, messageId, result, error) ==
  IF webViewRef
  THEN Append(inj, ResponseEnvelope(type, messageId, result, error))
  ELSE inj

\* the tail of handleIncomingAction: respond only if there was a messageId,
\* and only if the content view reference is present
respond(inj, type, messageId, result, error) ==
  IF messageId # NoToken /\ webViewRef
  THEN Append(inj, ResponseEnvelope(type, messageId, result, error))
  ELSE inj

\* the messageId the content side puts on its n-th action
MessageIdOf(n) == <<7, -n>>

\* inbound actions: a verb with a handler of its own and one without, with
\* and without a messageId
ActionEvents ==
  {[json |-> TRUE, value |-> [type |-> type, messageId |-> MessageIdOf(nextAction),
                              fieldId |-> "photo1"]] : type \in ActionTypes}
    \cup {[json |-> TRUE, value |-> [type |-> type, fieldId |-> "photo1"]] :
            type \in ActionTypes}

\* handleWebViewMessage, any other type: handleIncomingAction up to the
\* await (explored in runs with at most MaxMixedCalls calls)
ReceiveAction ==
  /\ webViewRef
  /\ nextCall <= MaxMixedCalls + 1
  /\ \E event \in ActionEvents :
       LET outcome == handleWebViewMessage(Manager, event, <<>>)
           a == outcome.routed[1]
           picked == PickHandler(a.type, a.data, a.messageId)
       IN /\ outcome.routed # <<>>
          /\ Commit([outcome.manager EXCEPT
                       !.injected = IF picked.handler = NoHandler
                                    THEN respond(@, a.type, a.messageId, Undefined,
                                                 picked.error)
                                    ELSE @])
          /\ actions' = IF picked.handler = NoHandler
                        THEN actions
                        ELSE actions \cup {[n |-> nextAction, type |-> a.type,
                                            messageId |-> a.messageId,
                                            handler |-> picked.handler,
                                            argument |-> picked.argument]}
  /\ nextAction' = nextAction + 1
  /\ UNCHANGED <<nativeSideHandlers, webViewRef, nextCall, now>>
  /\ UNCHANGED <<componentVars, modalVars, playerVars>>

\* an inbound action arrives
HandleIncomingAction == nextAction <= MaxActions /\ ReceiveAction

\* what the awaited handler does: it returns a value, or it throws (or
\* rejects with) an Error
HandlerOutcomes ==
  {[kind |-> "returned", result |-> "r1", thrown |-> <<>>],
   [kind |-> "threw", result |-> Undefined, thrown |-> <<"Error", "E">>]}

\* String(e) of an Error e: its name, ': ', its message
StringOfError(e) == <<e[1], ": ", e[2]>>

\* a resumption without the catch: what the handler throws escapes
resumeIncomingActionNoCatch(inj, a, outcome) ==
  IF outcome.kind = "threw"
  THEN [injected |-> inj, responsePayload |-> <<>>, escaped |-> outcome.thrown]
  ELSE [injected |-> respond(inj, a.type, a.messageId, outcome.result, NoError),
        responsePayload |->
          IF a.messageId # NoToken
          THEN <<ResponseEnvelope(a.type, a.messageId, outcome.result, NoError)>>
          ELSE <<>>,
        escaped |-> <<>>]

\* a resumption that fills result with the thrown message next to error
resumeIncomingActionBothFields(inj, a, outcome) ==
  LET error == IF outcome.kind = "threw"
               THEN StringOfError(outcome.thrown) ELSE NoError
      result == IF outcome.kind = "threw" THEN outcome.thrown[2] ELSE outcome.result
  IN [injected |-> respond(inj, a.type, a.messageId, result, error),
      responsePayload |->
        IF a.messageId # NoToken
        THEN <<ResponseEnvelope(a.type, a.messageId, result, error)>>
        ELSE <<>>,
      escaped |-> <<>>]

\* a resumption that answers with the messageId of the action received last
resumeIncomingActionLastMessageId(inj, a, outcome) ==
  LET error == IF outcome.kind = "threw"
               THEN StringOfError(outcome.thrown) ELSE NoError
      last == MessageIdOf(nextAction - 1)
  IN [injected |-> respond(inj, a.type, IF a.messageId # NoToken THEN last ELSE NoToken,
                           outcome.result, error),
      responsePayload |->
        IF a.messageId # NoToken
        THEN <<ResponseEnvelope(a.type, last, outcome.result, error)>>
        ELSE <<>>,
      escaped |-> <<>>]

\* handleIncomingAction from the await on: the catch turns what the handler
\* threw into error, then the tail builds responsePayload (none: the empty
\* sequence) and responds; escaped is the exception that leaves
\* handleIncomingAction (none: the empty sequence)
resumeIncomingAction(inj, a, outcome) ==
  LET error == IF outcome.kind = "threw"
               THEN StringOfError(outcome.thrown) ELSE NoError
  IN [injected |-> respond(inj, a.type, a.messageId, outcome.result, error),
      responsePayload |->
        IF a.messageId # NoToken
        THEN <<ResponseEnvelope(a.type, a.messageId, outcome.result, error)>>
        ELSE <<>>,
      escaped |-> <<>>]

\* handleIncomingAction after the await: the handler returned or threw
HandlerSettled ==
  /\ \E a \in actions, outcome \in HandlerOutcomes :
       /\ injected' = resumeIncomingAction(injected, a, outcome).injected
       /\ actions' = actions \ {a}
  /\ UNCHANGED <<isWebViewReady, messageQueue, pendingRequests, nativeSideHandlers,
                 webViewRef, timers, promise, nextCall, now, nextAction>>
  /\ UNCHANGED <<componentVars, modalVars, playerVars>>

\* a deadline timer fires, no earlier than its deadline
TimerFires ==
  /\ \E t \in timers :
       /\ now >= t.deadline
       /\ Commit(timeoutCallback(Manager, t))
  /\ UNCHANGED <<nativeSideHandlers, webViewRef, nextCall, now, actions, nextAction>>
  /\ UNCHANGED <<componentVars, modalVars, playerVars>>

\* the host calls reset()
Reset ==
  /\ Commit(reset(Manager))
  /\ UNCHANGED <<nativeSideHandlers, webViewRef, nextCall, now, actions, nextAction>>
  /\ UNCHANGED <<componentVars, modalVars, playerVars>>

\* a handleReceiveFocus that resets the manager
handleReceiveFocusAsReset(m) == reset(m)

\* handleReceiveFocus: the onReceiveFocus handler (which has no access to the
\* manager) is called, what it throws is caught
handleReceiveFocus(m) == m

\* the host calls the public handleReceiveFocus()
HandleReceiveFocus ==
  /\ Commit(handleReceiveFocus(Manager))
  /\ UNCHANGED <<nativeSideHandlers, webViewRef, nextCall, now, actions, nextAction>>
  /\ UNCHANGED <<componentVars, modalVars, playerVars>>

\* time passes: one deadline's worth
Tick ==
  /\ now < MaxTicks * REQUEST_TIMEOUT
  /\ now' = now + REQUEST_TIMEOUT
  /\ UNCHANGED <<isWebViewReady, messageQueue, pendingRequests, nativeSideHandlers,
                 webViewRef, timers, injected, promise, nextCall, actions, nextAction>>
  /\ UNCHANGED <<componentVars, modalVars, playerVars>>

\* the content view is mounted or unmounted: webViewRef.current changes
WebViewRefChanges ==
  /\ webViewRef' = ~webViewRef
  /\ UNCHANGED <<isWebViewReady, messageQueue, pendingRequests, nativeSideHandlers,
                 timers, injected, promise, nextCall, now, actions, nextAction>>
  /\ UNCHANGED <<componentVars, modalVars, playerVars>>

(* ---------------------- CustomAppWebView (component) ------------------- *)
\* a focus effect that does not wait for the first load to end
FocusEffectInjectsEarly(focused, script) ==
  focused /\ webViewRef /\ script # "consoleLogScript"

\* the condition under which the focus effect injects reInjectionWrapper
FocusEffectInjects(focused, script) ==
  focused /\ webViewRef /\ script # "consoleLogScript" /\ hasLoadedOnce

\* reInjectionWrapper run by the content view: the bootstrap script is
\* replayed when the formulus surface is missing, and defines it again
RunReInjectionWrapper(defined) ==
  [replayed |-> ~defined, formulusDefined |-> TRUE]

\* the focus effect, run after a render in which isFocused or
\* injectionScript changed: whether the bootstrap was replayed, and the
\* surface afterwards
FocusEffect(focused, script) ==
  IF FocusEffectInjects(focused, script)
  THEN RunReInjectionWrapper(formulusDefined)
  ELSE [replayed |-> FALSE, formulusDefined |-> formulusDefined]

\* the variables of the manager
managerVars == <<isWebViewReady, messageQueue, pendingRequests, nativeSideHandlers,
                 timers, injected, promise, nextCall, now, actions, nextAction>>

\* the component is mounted: a new instance with its initial state, the
\* reference attached; injectionScript is still consoleLogScript, so the
\* focus effect of the first render injects nothing
Mount ==
  /\ ~webViewRef
  /\ webViewRef' = TRUE
  /\ isFocused' = TRUE
  /\ injectionScript' = "consoleLogScript"
  /\ hasLoadedOnce' = FALSE
  /\ formulusDefined' = FALSE
  /\ UNCHANGED <<managerVars, appState>>
  /\ UNCHANGED <<modalVars, playerVars>>

\* the component is unmounted: the reference becomes null
Unmount ==
  /\ webViewRef
  /\ webViewRef' = FALSE
  /\ UNCHANGED <<managerVars, componentVars>>
  /\ UNCHANGED <<modalVars, playerVars>>

\* loadScript: readFileAssets succeeds and injectionScript becomes the full
\* script, or fails and it stays consoleLogScript; the focus effect runs
\* when injectionScript changed
ScriptRead ==
  /\ webViewRef
  /\ injectionScript = "consoleLogScript"
  /\ \E ok \in BOOLEAN :
       /\ injectionScript' = IF ok THEN "full" ELSE "consoleLogScript"
       /\ formulusDefined' = IF ok THEN FocusEffect(isFocused, "full").formulusDefined
                             ELSE formulusDefined
  /\ UNCHANGED <<managerVars, webViewRef, isFocused, hasLoadedOnce, appState>>
  /\ UNCHANGED <<modalVars, playerVars>>

\* the page (re)loads: injectedJavaScriptBeforeContentLoaded runs the current
\* injectionScript, and onLoadEnd marks the first load as done
LoadEnd ==
  /\ webViewRef
  /\ formulusDefined' = (injectionScript = "full")
  /\ hasLoadedOnce' = TRUE
  /\ UNCHANGED <<managerVars, webViewRef, isFocused, injectionScript, appState>>
  /\ UNCHANGED <<modalVars, playerVars>>

\* the screen loses or regains focus; the focus effect runs
FocusChanges ==
  /\ webViewRef
  /\ isFocused' = ~isFocused
  /\ formulusDefined' = FocusEffect(~isFocused, injectionScript).formulusDefined
  /\ UNCHANGED <<managerVars, webViewRef, injectionScript, hasLoadedOnce, appState>>
  /\ UNCHANGED <<modalVars, playerVars>>

\* the operating system resets the content process of a backgrounded view
ContentProcessReset ==
  /\ webViewRef
  /\ formulusDefined
  /\ formulusDefined' = FALSE
  /\ UNCHANGED <<managerVars, webViewRef, isFocused, injectionScript, hasLoadedOnce,
                 appState>>
  /\ UNCHANGED <<modalVars, playerVars>>

\* the AppState listener: a change to 'active' calls handleReceiveFocus
AppStateChanges ==
  /\ webViewRef
  /\ \E nextAppState \in {"active", "background"} :
       /\ nextAppState # appState
       /\ appState' = nextAppState
       /\ Commit(IF nextAppState = "active"
                 THEN handleReceiveFocus(Manager) ELSE Manager)
  /\ UNCHANGED <<nativeSideHandlers, webViewRef, nextCall, now, actions, nextAction,
                 isFocused, injectionScript, hasLoadedOnce, formulusDefined>>
  /\ UNCHANGED <<modalVars, playerVars>>

ViewNext ==
  \/ Mount
  \/ Unmount
  \/ ScriptRead
  \/ LoadEnd
  \/ FocusChanges
  \/ ContentProcessReset
  \/ AppStateChanges
  \/ Send
  \/ HandleReadySignal
  \/ Reset

ViewSpec == Init /\ [][ViewNext]_vars

(* --------------------------- FormplayerModal --------------------------- *)
MaxOpens == 2
MaxOperations == 2
MaxSubmissions == 2

FormTypes == {"survey"}
ObservationIds == {"obs1"}
\* the id of the n-th form operation
OperationIdOf(n) == <<"op1", "op2", "op3", "op4">>[n]

\* a string read as a condition: null and '' are falsy
TruthyString(v) == v # Null /\ v # ""

\* resolveFormOperation(operationId, completionResult) is called
resolveFormOperation(m, operationId, status, observationId) ==
  [m EXCEPT !.resolutions =
     Append(@, [by |-> "operation", key |-> operationId, status |-> status,
                observationId |-> observationId])]

\* resolveFormOperationByType(formType, completionResult) is called
resolveFormOperationByType(m, formType, status, observationId) ==
  [m EXCEPT !.resolutions =
     Append(@, [by |-> "type", key |-> formType, status |-> status,
                observationId |-> observationId])]

\* the effect on visible, when the modal becomes hidden: the reset timer of
\* 300 ms is armed
HiddenEffect(m) == [m EXCEPT !.resetTimers = @ + 1]

\* onClose(): the parent hides the modal
onClose(m) ==
  IF m.visible THEN HiddenEffect([m EXCEPT !.visible = FALSE]) ELSE m

\* handleClose
handleClose(m) ==
  IF m.isClosing \/ m.isSubmitting
  THEN m
  ELSE LET closing == [m EXCEPT !.isClosing = TRUE, !.closeTimer = TRUE]
           resolved ==
             IF ~m.formSubmitted /\ TruthyString(m.currentOperationId)
             THEN [resolveFormOperation(closing, m.currentOperationId, "cancelled", Null)
                     EXCEPT !.currentOperationId = Null]
             ELSE IF ~m.formSubmitted /\ TruthyString(m.currentFormType)
             THEN resolveFormOperationByType(closing, m.currentFormType, "cancelled", Null)
             ELSE closing
       IN onClose(resolved)

\* initializeForm
initializeForm(m, formType, observationId, operationId) ==
  [m EXCEPT !.currentFormType = formType,
            !.currentObservationId = observationId,
            !.currentOperationId = operationId,
            !.formSubmitted = FALSE]

\* what the awaited repository call does: updateObservation returns whether
\* it succeeded, saveObservation returns the new id (or nothing), and either
\* may throw
RepositoryOutcomes ==
  {[kind |-> "returned", updateSuccess |-> TRUE, newId |-> "new1", thrown |-> ""],
   [kind |-> "returned", updateSuccess |-> FALSE, newId |-> Null, thrown |-> ""],
   [kind |-> "returned", updateSuccess |-> FALSE, newId |-> "", thrown |-> ""],
   [kind |-> "threw", updateSuccess |-> FALSE, newId |-> Null, thrown |-> "E"]}

\* the catch block of handleSubmission, with the values its closure holds:
\* returned and threw describe how the promise of handleSubmission settles
handleSubmissionCatch(m, s, message) ==
  LET cleared == [m EXCEPT !.isSubmitting = FALSE]
  IN [modal |-> IF TruthyString(s.currentOperationId)
                THEN resolveFormOperation(cleared, s.currentOperationId, "error", Null)
                ELSE resolveFormOperationByType(cleared, s.formType, "error", Null),
      returned |-> <<>>,
      threw |-> <<message>>]

\* the try block of handleSubmission once the record is saved: the form is
\* marked submitted, the success result is reported and the success alert
\* is shown
handleSubmissionSaved(m, s, resultObservationId) ==
  LET status == IF TruthyString(s.currentObservationId)
                THEN "form_updated" ELSE "form_submitted"
      submitted == [m EXCEPT !.formSubmitted = TRUE, !.successAlerts = @ + 1]
  IN [modal |-> IF TruthyString(s.currentOperationId)
                THEN [resolveFormOperation(submitted, s.currentOperationId, status,
                                           resultObservationId)
                        EXCEPT !.currentOperationId = Null]
                ELSE resolveFormOperationByType(submitted, s.formType, status,
                                                resultObservationId),
      returned |-> <<resultObservationId>>,
      threw |-> <<>>]

\* a try block that reports success whatever the repository answered
handleSubmissionTryUnchecked(m, s, outcome) ==
  handleSubmissionSaved(m, s, IF TruthyString(s.currentObservationId)
                              THEN s.currentObservationId ELSE outcome.newId)

\* handleSubmission from the await on, with the values its closure holds
handleSubmissionTry(m, s, outcome) ==
  IF outcome.kind = "threw"
  THEN handleSubmissionCatch(m, s, outcome.thrown)
  ELSE IF TruthyString(s.currentObservationId) /\ ~outcome.updateSuccess
  THEN handleSubmissionCatch(m, s, "Failed to update observation")
  ELSE IF ~TruthyString(s.currentObservationId) /\ ~TruthyString(outcome.newId)
  THEN handleSubmissionCatch(m, s, "Failed to save new observation")
  ELSE handleSubmissionSaved(m, s, IF TruthyString(s.currentObservationId)
                                   THEN s.currentObservationId ELSE outcome.newId)

\* handleSubmission up to the await: the submitting flag is set; without a
\* repository the catch block runs at once, otherwise the repository call is
\* made with the values the closure holds
handleSubmissionCall(m, formType, n) ==
  [n |-> n, formType |-> formType,
   currentObservationId |-> m.currentObservationId,
   currentOperationId |-> m.currentOperationId,
   call |-> IF TruthyString(m.currentObservationId)
            THEN "updateObservation" ELSE "saveObservation"]

\* the state outside the form modal
outsideModal == <<managerVars, webViewRef, componentVars, playerVars>>

\* the parent shows the modal
Show ==
  /\ ~modal.visible
  /\ opens < MaxOpens
  /\ modal' = [modal EXCEPT !.visible = TRUE]
  /\ opens' = opens + 1
  /\ UNCHANGED <<submissions, nextSubmission, nextOperation>>
  /\ UNCHANGED outsideModal

\* the parent initializes a form in the shown modal, for a new record or an
\* existing one, with or without a form operation
InitializeForm ==
  /\ modal.visible
  /\ nextOperation <= MaxOperations
  /\ \E formType \in FormTypes, observationId \in ObservationIds \cup {Null},
        operationId \in {OperationIdOf(nextOperation), Null} :
       modal' = initializeForm(modal, formType, observationId, operationId)
  /\ nextOperation' = nextOperation + 1
  /\ UNCHANGED <<submissions, nextSubmission, opens>>
  /\ UNCHANGED outsideModal

\* the close button or the back button
HandleClose ==
  /\ modal.visible
  /\ modal' = handleClose(modal)
  /\ UNCHANGED <<submissions, nextSubmission, nextOperation, opens>>
  /\ UNCHANGED outsideModal

\* the timer of 500 ms armed by handleClose fires
CloseTimerFires ==
  /\ modal.closeTimer
  /\ modal' = [modal EXCEPT !.closeTimer = FALSE, !.isClosing = FALSE]
  /\ UNCHANGED <<submissions, nextSubmission, nextOperation, opens>>
  /\ UNCHANGED outsideModal

\* a reset timer of the hidden modal fires
ResetTimerFires ==
  /\ modal.resetTimers > 0
  /\ modal' = [modal EXCEPT !.resetTimers = @ - 1,
                            !.currentFormType = Null,
                            !.currentObservationId = Null,
                            !.isClosing = FALSE,
                            !.formSubmitted = FALSE]
  /\ UNCHANGED <<submissions, nextSubmission, nextOperation, opens>>
  /\ UNCHANGED outsideModal

\* the message handlers call handleSubmission of the active modal
HandleSubmission ==
  /\ modal.visible
  /\ nextSubmission <= MaxSubmissions
  /\ \E formType \in FormTypes, localRepo \in BOOLEAN :
       LET submitting == [modal EXCEPT !.isSubmitting = TRUE]
           s == handleSubmissionCall(modal, formType, nextSubmission)
       IN IF localRepo
          THEN /\ modal' = submitting
               /\ submissions' = submissions \cup {s}
          ELSE /\ modal' = handleSubmissionCatch(submitting, s,
                                                 "Database repository not available").modal
               /\ UNCHANGED submissions
  /\ nextSubmission' = nextSubmission + 1
  /\ UNCHANGED <<nextOperation, opens>>
  /\ UNCHANGED outsideModal

\* the repository call of a handleSubmission settles
RepositorySettled ==
  /\ \E s \in submissions, outcome \in RepositoryOutcomes :
       /\ modal' = handleSubmissionTry(modal, s, outcome).modal
       /\ submissions' = submissions \ {s}
  /\ UNCHANGED <<nextSubmission, nextOperation, opens>>
  /\ UNCHANGED outsideModal

\* OK is pressed on a success alert
AlertOk ==
  /\ modal.successAlerts > 0
  /\ modal' = onClose([modal EXCEPT !.successAlerts = @ - 1, !.isSubmitting = FALSE])
  /\ UNCHANGED <<submissions, nextSubmission, nextOperation, opens>>
  /\ UNCHANGED outsideModal

ModalNext ==
  \/ Show
  \/ InitializeForm
  \/ HandleClose
  \/ CloseTimerFires
  \/ ResetTimerFires
  \/ HandleSubmission
  \/ RepositorySettled
  \/ AlertOk

ModalSpec == Init /\ [][ModalNext]_vars

(* ------------------------- formplayer (App) --------------------------- *)
MaxElements == 2
MaxMounts == 2

\* message types the page posts besides the readiness signal
formplayerInitialized ==
  <<"f", "o", "r", "m", "p", "l", "a", "y", "e", "r", "I", "n", "i", "t",
    "i", "a", "l", "i", "z", "e", "d">>
formplayerError ==
  <<"f", "o", "r", "m", "p", "l", "a", "y", "e", "r", "E", "r", "r", "o", "r">>
errorType == <<"e", "r", "r", "o", "r">>

\* UI schema elements
FinalizeElement == [type |-> "Finalize"]
ControlElement(scope) == [type |-> "Control", scope |-> scope]

\* the root elements a UI schema may have, Finalize elements among them
RootElements ==
  UNION {[1..n -> {ControlElement("a"), ControlElement("b"), FinalizeElement}] :
           n \in 0..MaxElements}

\* the UI schemas onFormInit may carry: none, a SwipeLayout or another layout
\* with root elements, a SwipeLayout without an elements array, and a lone
\* control
UISchemas ==
  {NoSchema}
    \cup {[type |-> type, elements |-> elements] :
            type \in {"SwipeLayout", "VerticalLayout"}, elements \in RootElements}
    \cup {[type |-> "SwipeLayout"], ControlElement("a")}

\* ensureSwipeLayoutRoot: every root other than a SwipeLayout is wrapped
ensureSwipeLayoutRoot(uiSchema) ==
  IF uiSchema = NoSchema
  THEN [type |-> "SwipeLayout", elements |-> <<>>]
  ELSE IF uiSchema.type = "SwipeLayout"
  THEN uiSchema
  ELSE [type |-> "SwipeLayout", elements |-> <<uiSchema>>]

\* elements.splice(index, 1)
Splice(elements, index) ==
  [k \in 1..(Len(elements) - 1) |->
     IF k < index THEN elements[k] ELSE elements[k + 1]]

\* the indices of the existing Finalize elements are removed, last first
RECURSIVE RemoveFinalize(_, _)
RemoveFinalize(elements, index) ==
  IF index = 0 THEN elements
  ELSE RemoveFinalize(IF elements[index].type = "Finalize"
                      THEN Splice(elements, index) ELSE elements,
                      index - 1)

\* processUISchemaWithFinalize
processUISchemaWithFinalize(uiSchema) ==
  IF uiSchema = NoSchema \/ "elements" \notin DOMAIN uiSchema
  THEN [type |-> "VerticalLayout", elements |-> <<FinalizeElement>>]
  ELSE [uiSchema EXCEPT
          !.elements = Append(RemoveFinalize(@, Len(@)), FinalizeElement)]

\* what onFormInit is called with
\* what onFormInit is called with: no form type, no form schema, or both
\* and any of the UI schemas
InitDatas ==
  {[formType |-> "", formSchema |-> TRUE, uiSchema |-> NoSchema],
   [formType |-> "survey", formSchema |-> FALSE, uiSchema |-> ControlElement("a")]}
    \cup {[formType |-> "survey", formSchema |-> TRUE, uiSchema |-> uiSchema] :
            uiSchema \in UISchemas}

\* a message the page posts through window.ReactNativeWebView.postMessage
PostedMessage(type) == [json |-> TRUE, value |-> [type |-> type]]

\* handleFormInitByNative
handleFormInitByNative(p, initData) ==
  LET loaded == [p EXCEPT !.isLoading = FALSE]
  IN IF ~Truthy(initData.formType)
     THEN [loaded EXCEPT !.loadError = TRUE,
                         !.posted = Append(@, PostedMessage(formplayerError))]
     ELSE [loaded EXCEPT
             !.formInitData = initData,
             !.uischema = processUISchemaWithFinalize(
                            ensureSwipeLayoutRoot(IF initData.formSchema
                                                  THEN initData.uiSchema ELSE NoSchema)),
             !.loadError = FALSE,
             !.posted = Append(@, PostedMessage(formplayerInitialized))]

\* a registration effect that posts the readiness signal without assigning
\* window.onFormInit
RegistrationEffectPostsOnly(p) ==
  [p EXCEPT !.isLoading = TRUE,
            !.posted = Append(@, ReadyEvent),
            !.initTimeout = TRUE]

\* the effect that registers window.onFormInit, posts the readiness signal
\* and arms the timer (the page runs inside the content view, so
\* window.ReactNativeWebView exists)
RegistrationEffect(p) ==
  LET registered == [p EXCEPT !.isLoading = TRUE, !.onFormInit = TRUE]
  IN [registered EXCEPT !.posted = Append(@, ReadyEvent), !.initTimeout = TRUE]

\* the cleanup of the effect
RegistrationCleanup(p) ==
  [p EXCEPT !.initTimeout = FALSE, !.onFormInit = FALSE]

\* the App component mounts in the page of the mounted content view
AppMounts ==
  /\ webViewRef
  /\ ~player.mounted
  /\ player.mounts < MaxMounts
  /\ player' = RegistrationEffect([player EXCEPT !.mounted = TRUE,
                                                 !.mounts = @ + 1,
                                                 !.formInitData = NoInitData,
                                                 !.uischema = NoSchema,
                                                 !.loadError = FALSE])
  /\ UNCHANGED <<managerVars, webViewRef, componentVars, modalVars>>

\* the App component unmounts
AppUnmounts ==
  /\ player.mounted
  /\ player' = [RegistrationCleanup(player) EXCEPT !.mounted = FALSE]
  /\ UNCHANGED <<managerVars, webViewRef, componentVars, modalVars>>

\* the timer of 10 s fires
InitTimeoutFires ==
  /\ player.initTimeout
  /\ player' = IF player.isLoading
               THEN [player EXCEPT !.initTimeout = FALSE, !.loadError = TRUE,
                                   !.isLoading = FALSE,
                                   !.posted = Append(@, PostedMessage(errorType))]
               ELSE [player EXCEPT !.initTimeout = FALSE]
  /\ UNCHANGED <<managerVars, webViewRef, componentVars, modalVars>>

\* the call scripts injected so far
InjectedCalls == SelectSeq(injected, LAMBDA e : e.kind = "call")

\* the page runs the next injected call script: window.onFormInit, when it
\* is defined, is handleFormInitByNative, which returns nothing
RunsInjectedScript ==
  /\ player.ran < Len(InjectedCalls)
  /\ \E initData \in InitDatas :
       LET script == InjectedCalls[player.ran + 1]
           handled == IF player.onFormInit
                      THEN handleFormInitByNative(player, initData) ELSE player
           posts == RunCallScript(script, [defined |-> player.onFormInit,
                                           settles |-> "returns",
                                           value |-> Undefined])
       IN player' = [handled EXCEPT !.ran = @ + 1, !.posted = @ \o posts]
  /\ UNCHANGED <<managerVars, webViewRef, componentVars, modalVars>>

\* the host receives the oldest posted message in handleWebViewMessage (the
\* types the manager does not know go to a host handler without a messageId,
\* which is answered by nothing)
HostReceives ==
  /\ webViewRef
  /\ player.posted # <<>>
  /\ \E rands \in RandSeqs(Len(messageQueue)) :
       Commit(handleWebViewMessage(Manager, Head(player.posted), rands).manager)
  /\ player' = [player EXCEPT !.posted = Tail(@)]
  /\ UNCHANGED <<nativeSideHandlers, webViewRef, nextCall, now, actions, nextAction>>
  /\ UNCHANGED <<componentVars, modalVars>>

PlayerNext ==
  \/ Mount
  \/ AppMounts
  \/ AppUnmounts
  \/ InitTimeoutFires
  \/ RunsInjectedScript
  \/ HostReceives
  \/ Send

PlayerSpec == Init /\ [][PlayerNext]_vars

Next ==
  \/ Send
  \/ SetWebViewReady
  \/ HandleReadySignal
  \/ HandleResponseMessage
  \/ HandleMalformedMessage
  \/ HandleConsoleMessage
  \/ HandleIncomingAction
  \/ HandlerSettled
  \/ TimerFires
  \/ Reset
  \/ HandleReceiveFocus
  \/ Tick
  \/ WebViewRefChanges

Spec == Init /\ [][Next]_vars

(* ---------------------- inbound actions in flight -------------------- *)
MaxInFlight == 3

\* an inbound action arrives while others may be awaiting their handlers
HandleIncomingActions == nextAction <= MaxInFlight /\ ReceiveAction

ActionNext ==
  \/ HandleIncomingActions
  \/ HandlerSettled
  \/ Send
  \/ HandleReadySignal
  \/ WebViewRefChanges

ActionSpec == Init /\ [][ActionNext]_vars

(* ------------------------ progress under fairness --------------------- *)
\* calls are dispatched up to the last tick of the clock; time then passes
\* once more, so that every armed deadline is reached
BeforeLastTick == now <= MaxTicks * REQUEST_TIMEOUT

\* time passes beyond the last dispatch
FinalTick ==
  /\ now = MaxTicks * REQUEST_TIMEOUT
  /\ now' = now + REQUEST_TIMEOUT
  /\ UNCHANGED <<isWebViewReady, messageQueue, pendingRequests, nativeSideHandlers,
                 webViewRef, timers, injected, promise, nextCall, actions, nextAction>>
  /\ UNCHANGED <<componentVars, modalVars, playerVars>>

\* send() before the last tick
TimelySend == BeforeLastTick /\ Send

\* the readiness signal before the last tick
TimelyReadySignal == BeforeLastTick /\ HandleReadySignal

FairNext ==
  \/ TimelySend
  \/ TimelyReadySignal
  \/ HandleResponseMessage
  \/ TimerFires
  \/ Reset
  \/ Tick
  \/ FinalTick
  \/ WebViewRefChanges

\* setTimeout callbacks run once due, and time does not stand still
FairSpec ==
  /\ Init
  /\ [][FairNext]_vars
  /\ WF_vars(TimerFires)
  /\ WF_vars(Tick)
  /\ WF_vars(FinalTick)

(* ------------------------------ properties ---------------------------- *)
\* the send() calls of a sequence of queue entries or of injected scripts
CallsOf(seq) == [i \in 1..Len(seq) |-> seq[i].call]

\* the call scripts among a sequence of injected scripts
CallScripts(seq) == SelectSeq(seq, LAMBDA e : e.kind = "call")

\* the scripts a step injects
NewlyInjected == SubSeq(injected', Len(injected) + 1, Len(injected'))

\* C1 (queue ordering): the queue holds the calls in the order they were
\* issued; a step that leaves the gate closed injects no call; and the step
\* that opens the gate injects exactly the queued calls, in the order of
\* the queue.
QueueFlushStep ==
  /\ \A i, j \in 1..Len(messageQueue) :
       i < j => messageQueue[i].call < messageQueue[j].call
  /\ (~isWebViewReady /\ ~isWebViewReady') => CallScripts(NewlyInjected) = <<>>
  /\ (~isWebViewReady /\ isWebViewReady' /\ webViewRef) =>
       /\ CallsOf(CallScripts(NewlyInjected)) = CallsOf(messageQueue)
       /\ messageQueue' = <<>>

QueueOrdering == [][QueueFlushStep]_vars

\* three calls are queued behind the closed gate of a mounted content view,
\* and the readiness signal injects the three of them, oldest first
QueueOrderingWitness ==
  /\ ~isWebViewReady
  /\ webViewRef
  /\ CallsOf(messageQueue) = <<1, 2, 3>>
  /\ \A rands \in RandSeqs(3) :
       LET m == handleReadySignal(Manager, rands)
       IN /\ m.messageQueue = <<>>
          /\ CallsOf(CallScripts(m.injected)) = <<1, 2, 3>>

\* C2 (closed gate): while the gate is closed, send() only appends the call
\* to the queue: nothing is injected, no pending request is registered, no
\* timer is armed and the promise stays unsettled; and every call that sits
\* in the queue has an unsettled promise, no table entry, no timer and no
\* injected script.
ClosedGateOnlyQueues ==
  /\ (~isWebViewReady /\ nextCall <= MaxCalls) =>
       \A callbackName \in CallbackNames, data \in Payloads, rand \in RandPool :
          LET m0 == Issued(Manager, nextCall)
              m == send(m0, callbackName, data, nextCall, rand)
          IN /\ m.injected = injected
             /\ m.pendingRequests = pendingRequests
             /\ m.timers = timers
             /\ m.promise = m0.promise
             /\ m.isWebViewReady = FALSE
             /\ m.messageQueue =
                  Append(messageQueue, [callbackName |-> callbackName,
                                        data |-> data, call |-> nextCall])
  /\ \A i \in 1..Len(messageQueue) :
       LET c == messageQueue[i].call
       IN /\ promise[c].state = "pending"
          /\ promise[c].settles = 0
          /\ \A t \in timers : t.handle # c
          /\ \A k \in DOMAIN pendingRequests : pendingRequests[k].call # c
          /\ \A k \in 1..Len(injected) : injected[k].kind = "call" => injected[k].call # c

\* the gate is closed, a call was dispatched earlier and is still pending,
\* and a later call sits in the queue
ClosedGateWitness ==
  /\ ~isWebViewReady
  /\ Len(messageQueue) = 2
  /\ pendingRequests # EmptyMap
  /\ Len(injected) = 1

\* C3 as stated: the gate starts closed, the readiness signal opens it, and
\* only reset() closes it again.
GateClosesOnlyOnReset ==
  /\ ~isWebViewReady
  /\ [][/\ \A rands \in RandSeqs(Len(messageQueue)) :
             handleReadySignal(Manager, rands).isWebViewReady
        /\ (isWebViewReady /\ ~isWebViewReady') => Reset]_vars

\* C3 amended: the gate starts closed, the readiness signal opens it, and
\* only reset() and setWebViewReady(false) close it again: every step of a
\* send, an inbound message, a timer, a focus notification, the clock or the
\* content view reference leaves an open gate open.
GateClosesOnlyOnResetOrSetter ==
  /\ ~isWebViewReady
  /\ [][/\ \A rands \in RandSeqs(Len(messageQueue)) :
             handleReadySignal(Manager, rands).isWebViewReady
        /\ (isWebViewReady /\ ~isWebViewReady') => (Reset \/ SetWebViewReady)]_vars

\* the gate is open after calls were dispatched, answered and timed out
GateWitness ==
  /\ isWebViewReady
  /\ \E c \in Calls : promise[c].state = "resolved"
  /\ \E c \in Calls : promise[c].state = "rejected"
                        /\ promise[c].value[1] = "Request timed out for "

\* the promise a matching response leaves behind
Answered(p, c, result, error) ==
  [state |-> IF Truthy(error) THEN "rejected" ELSE "resolved",
   value |-> IF Truthy(error) THEN <<error>> ELSE <<result>>,
   settles |-> 1]

\* C4 (matching response): a response whose token (messageId, else
\* payload.requestId) is in the table removes that entry and no other,
\* cancels that entry's timer and no other, and settles the promise of that
\* entry, which was unsettled, with the carried result, or with the carried
\* error when there is one; every other promise is as before.
MatchingResponseSettlesItsCall ==
  \A f \in ResponseFields, result \in Results, error \in Errors :
    LET id == OrToken(f[1], f[2])
    IN id \in DOMAIN pendingRequests =>
         LET entry == pendingRequests[id]
             m == handleResponseMessage(Manager, f[1], f[2], result, error)
         IN /\ m.pendingRequests = MapDelete(pendingRequests, id)
            /\ m.timers = {t \in timers : t.handle # entry.timeout}
            /\ promise[entry.call].state = "pending"
            /\ promise[entry.call].settles = 0
            /\ m.promise[entry.call] = Answered(promise, entry.call, result, error)
            /\ \A c \in Calls \ {entry.call} : m.promise[c] = promise[c]
            /\ m.injected = injected
            /\ m.messageQueue = messageQueue
            /\ m.isWebViewReady = isWebViewReady

\* one call was resolved by its response, its timer is gone, and two other
\* calls are still pending with their timers armed
MatchingResponseWitness ==
  /\ promise[2].state = "resolved"
  /\ promise[2].value = <<"r1">>
  /\ \A t \in timers : t.handle # 2
  /\ {pendingRequests[k].call : k \in DOMAIN pendingRequests} = {1, 3}
  /\ {t.handle : t \in timers} = {1, 3}

\* C5 (correlation uniqueness): the outstanding calls (dispatched, deadline
\* timer armed, promise unsettled) carry pairwise distinct requestIds and
\* each has its own entry in the table, so no send() has replaced the entry
\* of another outstanding call.
CorrelationUniqueness ==
  /\ \A t1, t2 \in timers :
       (t1.handle # t2.handle /\ promise[t1.handle].state = "pending"
          /\ promise[t2.handle].state = "pending") => t1.requestId # t2.requestId
  /\ \A t \in timers :
       promise[t.handle].state = "pending" =>
         /\ t.requestId \in DOMAIN pendingRequests
         /\ pendingRequests[t.requestId].call = t.handle

\* C6 (unmatched response): a response whose token is in no entry of the
\* table leaves the table, the timers, the queue, the gate, the promises
\* and the injected scripts as they are.
UnmatchedResponseChangesNothing ==
  \A f \in ResponseFields, result \in Results, error \in Errors :
    OrToken(f[1], f[2]) \notin DOMAIN pendingRequests =>
      handleResponseMessage(Manager, f[1], f[2], result, error) = Manager

\* a response can carry an unknown messageId beside the requestId of a
\* pending entry, while a call is queued and a stale requestId exists
UnmatchedResponseWitness ==
  /\ pendingRequests # EmptyMap
  /\ timers # {}
  /\ messageQueue # <<>>
  /\ \E f \in ResponseFields :
       /\ f[1] = UnknownId
       /\ f[2] \in DOMAIN pendingRequests
  /\ \E i \in 1..Len(injected) :
       /\ injected[i].kind = "call"
       /\ injected[i].requestId \notin DOMAIN pendingRequests

TimeoutReason(callbackName) == <<"Request timed out for ", callbackName>>
ResetReason == <<"WebViewMessageManager reset">>

\* the calls whose call script was injected
Injected == {injected[i].call : i \in {j \in 1..Len(injected) : injected[j].kind = "call"}}

\* C7 (timeout): when the deadline timer of a dispatched call that got no
\* response fires, the table entry of its requestId is removed, the call's
\* promise is rejected with the timeout failure, and nothing is injected or
\* queued again.
DeadlineRejectsItsCall ==
  \A t \in timers :
    (now >= t.deadline /\ t.handle \in Injected /\ promise[t.handle].state = "pending") =>
      LET m == timeoutCallback(Manager, t)
      IN /\ t.requestId \notin DOMAIN m.pendingRequests
         /\ m.promise[t.handle].state = "rejected"
         /\ m.promise[t.handle].value = TimeoutReason(t.callbackName)
         /\ m.injected = injected
         /\ m.messageQueue = messageQueue

\* C8 (timeout isolation): the firing of one call's deadline timer leaves the
\* table entry, the armed timer and the promise of every other call as they
\* are.
TimeoutIsolation ==
  \A t \in timers :
    now >= t.deadline =>
      LET m == timeoutCallback(Manager, t)
      IN /\ \A k \in DOMAIN pendingRequests :
              pendingRequests[k].call # t.handle =>
                /\ k \in DOMAIN m.pendingRequests
                /\ m.pendingRequests[k] = pendingRequests[k]
         /\ \A u \in timers \ {t} : u \in m.timers
         /\ \A c \in Calls \ {t.handle} : m.promise[c] = promise[c]

ResetDrainsEverything ==
  LET m == reset(Manager)
      pending == {pendingRequests[k].call : k \in DOMAIN pendingRequests}
      queued == {messageQueue[i].call : i \in 1..Len(messageQueue)}
  IN /\ \A c \in pending \cup queued :
          /\ m.promise[c].state = "rejected"
          /\ m.promise[c].value = ResetReason
     /\ m.pendingRequests = EmptyMap
     /\ m.messageQueue = <<>>
     /\ \A t \in m.timers : t.handle \notin pending

TransportReason == <<"WebView reference is null">>

\* C11 (transport unavailable): with the gate open and the content view
\* reference absent, send() rejects the call's promise at once with the
\* transport failure, leaves no table entry for the call or for its
\* requestId, and injects and queues nothing; the same holds for every
\* queued call that the opening of the gate dispatches.
TransportUnavailableRejects ==
  /\ (isWebViewReady /\ ~webViewRef /\ nextCall <= MaxCalls) =>
       \A callbackName \in CallbackNames, data \in Payloads, rand \in RandPool :
          LET m == send(Issued(Manager, nextCall), callbackName, data, nextCall, rand)
          IN /\ m.promise[nextCall] =
                  [state |-> "rejected", value |-> TransportReason, settles |-> 1]
             /\ MintRequestId(rand) \notin DOMAIN m.pendingRequests
             /\ \A k \in DOMAIN m.pendingRequests : m.pendingRequests[k].call # nextCall
             /\ m.injected = injected
             /\ m.messageQueue = messageQueue
  /\ (~isWebViewReady /\ ~webViewRef) =>
       \A rands \in RandSeqs(Len(messageQueue)) :
          LET m == handleReadySignal(Manager, rands)
          IN /\ \A i \in 1..Len(messageQueue) :
                  /\ m.promise[messageQueue[i].call].state = "rejected"
                  /\ m.promise[messageQueue[i].call].value = TransportReason
                  /\ \A k \in DOMAIN m.pendingRequests :
                       m.pendingRequests[k].call # messageQueue[i].call
             /\ m.injected = injected

\* the gate is open, the content view reference is absent, and a call was
\* rejected with the transport failure without being injected or registered
TransportUnavailableWitness ==
  /\ isWebViewReady
  /\ ~webViewRef
  /\ \E c \in Calls :
       /\ promise[c].state = "rejected"
       /\ promise[c].value = TransportReason
       /\ c \notin Injected
       /\ \A k \in DOMAIN pendingRequests : pendingRequests[k].call # c

\* C12 (malformed message): a message whose text JSON.parse rejects, or that
\* parses to something without a type, is logged (warn or error) and dropped:
\* handleWebViewMessage throws nothing, hands nothing to an action handler,
\* and leaves the gate, the queue, the table, the timers, the promises and
\* the injected scripts as they are.
MalformedIsDropped ==
  \A event \in MalformedEvents :
    LET outcome == handleWebViewMessage(Manager, event, <<>>)
    IN /\ outcome.manager = Manager
       /\ outcome.routed = <<>>
       /\ ~outcome.threw
       /\ outcome.sink \in {"warn", "error"}

\* a call is pending, another is queued, and a message without a type can
\* carry the requestId of the pending call
MalformedWitness ==
  /\ messageQueue # <<>>
  /\ \E k \in DOMAIN pendingRequests :
       /\ promise[pendingRequests[k].call].state = "pending"
       /\ [json |-> TRUE, value |-> [messageId |-> k, requestId |-> k, result |-> "r1"]]
            \in MalformedEvents
       /\ handleWebViewMessage(Manager,
                               [json |-> TRUE,
                                value |-> [messageId |-> k, requestId |-> k,
                                           result |-> "r1"]],
                               <<>>).manager = Manager

\* C13 (log passthrough): a message of type 'console.<level>' or 'console'
\* goes to the logging sink only: handleWebViewMessage throws nothing, hands
\* nothing to an action handler, injects nothing, and leaves the gate, the
\* queue, the table, the timers and the promises as they are.
LogPassthroughOnlyLogs ==
  \A event \in ConsoleEvents :
    LET outcome == handleWebViewMessage(Manager, event, <<>>)
    IN /\ outcome.manager = Manager
       /\ outcome.routed = <<>>
       /\ ~outcome.threw
       /\ outcome.sink \in {"log", "error"}

\* a call is pending, an inbound action awaits its handler, and a log
\* message can carry the requestId of the pending call
LogPassthroughWitness ==
  /\ actions # {}
  /\ \E k \in DOMAIN pendingRequests :
       /\ promise[pendingRequests[k].call].state = "pending"
       /\ \E event \in ConsoleEvents :
            /\ Field(event.value, "messageId", NoToken) = k
            /\ handleWebViewMessage(Manager, event, <<>>).sink = "log"

\* the response envelopes among the injected scripts
ResponseScripts(seq) == SelectSeq(seq, LAMBDA e : e.kind = "response")

\* the envelope an action expects back: its verb followed by '_response',
\* its messageId, the handler's result and error
ExpectedResponse(a, result, error) ==
  [kind |-> "response",
   type |-> a.type \o <<"_", "r", "e", "s", "p", "o", "n", "s", "e">>,
   messageId |-> a.messageId, result |-> result, error |-> error]

\* what the handler's settlement puts in the envelope
OutcomeResult(outcome) == IF outcome.kind = "returned" THEN "r1" ELSE Undefined
OutcomeError(outcome) ==
  IF outcome.kind = "returned" THEN NoError ELSE <<"Error", ": ", "E">>

\* no envelope is injected for an action whose handler has not settled, and
\* no two injected envelopes carry the same messageId
RespondedOnceAndNotEarly ==
  /\ \A a \in actions :
       \A i \in 1..Len(injected) :
          injected[i].kind = "response" => injected[i].messageId # a.messageId
  /\ \A i, j \in 1..Len(injected) :
       (i < j /\ injected[i].kind = "response" /\ injected[j].kind = "response") =>
         injected[i].messageId # injected[j].messageId

NoResponseWithoutMessageId ==
  /\ \A event \in ActionEvents :
       "messageId" \notin DOMAIN event.value =>
         LET routed == handleWebViewMessage(Manager, event, <<>>).routed
             picked == PickHandler(routed[1].type, routed[1].data, routed[1].messageId)
         IN /\ Len(routed) = 1
            /\ routed[1].messageId = NoToken
            /\ (HandlerName(routed[1].type) \in nativeSideHandlers
                  \/ onUnknownMessage \in nativeSideHandlers) =>
                 picked.handler # NoHandler
            /\ picked.handler = NoHandler =>
                 respond(injected, routed[1].type, NoToken, Undefined, picked.error)
                   = injected
  /\ \A a \in actions, outcome \in HandlerOutcomes :
       a.messageId = NoToken =>
         resumeIncomingAction(injected, a, outcome).injected = injected
  /\ \A i \in 1..Len(injected) :
       injected[i].kind = "response" => injected[i].messageId # NoToken

\* the content view is mounted and the handler of an action without a
\* messageId is about to settle
NoResponseWitness ==
  /\ webViewRef
  /\ \E a \in actions : a.messageId = NoToken /\ a.handler = onRequestCamera

\* the step of a handler's settlement
HandlerFailureContainedStep ==
  /\ \A a \in actions :
       LET outcome == [kind |-> "threw", result |-> Undefined,
                       thrown |-> <<"Error", "E">>]
           resumed == resumeIncomingAction(injected, a, outcome)
       IN /\ outcome \in HandlerOutcomes
          /\ resumed.escaped = <<>>
          /\ a.messageId # NoToken =>
               /\ resumed.responsePayload =
                    <<ExpectedResponse(a, Undefined, <<"Error", ": ", "E">>)>>
               /\ webViewRef =>
                    resumed.injected = Append(injected, resumed.responsePayload[1])
          /\ a.messageId = NoToken =>
               /\ resumed.responsePayload = <<>>
               /\ resumed.injected = injected
  /\ (actions' # actions /\ nextAction' = nextAction) =>
       UNCHANGED <<isWebViewReady, messageQueue, pendingRequests, timers, promise>>

\* C16 (handler failure is contained): what a handler throws never leaves
\* handleIncomingAction; with a messageId it becomes the stringified error
\* of the response envelope, without one nothing is built or injected; and
\* the step in which a handler settles leaves the gate, the queue, the
\* table, the timers and the promises as they are.
HandlerFailureContained == [][HandlerFailureContainedStep]_vars

\* a throwing handler's error went back to the content view while a call
\* was pending
HandlerFailureWitness ==
  /\ actions = {}
  /\ pendingRequests # EmptyMap
  /\ \E i \in 1..Len(injected) :
       /\ injected[i].kind = "response"
       /\ injected[i].error = <<"Error", ": ", "E">>

\* the handler names the routing convention yields for the verbs considered
ExpectedHandlerName(type) ==
  IF type = requestCamera THEN onRequestCamera
  ELSE <<"o", "n", "N", "o", "S", "u", "c", "h", "V", "e", "r", "b">>

\* C17 (routing): the verb goes to the handler 'on' + Verb, called with the
\* message's fields other than type and messageId; without such a handler
\* it goes to onUnknownMessage, called with type, those fields and
\* messageId; without that either the outcome is the error 'No handler for
\* message type <verb>', and nothing is thrown.
RoutingByConvention ==
  \A event \in ActionEvents :
    LET outcome == handleWebViewMessage(Manager, event, <<>>)
        type == event.value.type
        messageId == Field(event.value, "messageId", NoToken)
        picked == PickHandler(type, outcome.routed[1].data, messageId)
    IN /\ ~outcome.threw
       /\ outcome.manager = Manager
       /\ outcome.routed = <<[type |-> type, data |-> [fieldId |-> "photo1"],
                              messageId |-> messageId]>>
       /\ HandlerName(type) = ExpectedHandlerName(type)
       /\ IF ExpectedHandlerName(type) \in nativeSideHandlers
          THEN /\ picked.handler = ExpectedHandlerName(type)
               /\ picked.argument = [fieldId |-> "photo1"]
               /\ picked.error = NoError
          ELSE IF onUnknownMessage \in nativeSideHandlers
          THEN /\ picked.handler = onUnknownMessage
               /\ picked.argument = [type |-> type, fieldId |-> "photo1",
                                     messageId |-> messageId]
               /\ picked.error = NoError
          ELSE /\ picked.handler = NoHandler
               /\ picked.error = <<"No handler for message type ", type>>

\* a verb without a handler of its own was handed to onUnknownMessage with
\* its full envelope
RoutingWitness ==
  \E a \in actions :
    /\ a.type = noSuchVerb
    /\ a.handler = onUnknownMessage
    /\ a.argument = [type |-> noSuchVerb, fieldId |-> "photo1",
                     messageId |-> MessageIdOf(1)]

\* C18 (atomic flush): the opening of the gate dispatches the whole queue in
\* the same step, so the gate is never open with a call still queued; the
\* call scripts are injected in the order the calls were issued; and a call
\* issued once the readiness signal has been handled is injected after
\* every call that was queued before it.
AtomicFlush ==
  /\ isWebViewReady => messageQueue = <<>>
  /\ \A i, j \in 1..Len(CallScripts(injected)) :
       i < j => CallScripts(injected)[i].call < CallScripts(injected)[j].call
  /\ (~isWebViewReady /\ webViewRef /\ nextCall <= MaxCalls) =>
       \A rands \in RandSeqs(Len(messageQueue)), rand \in RandPool,
          callbackName \in CallbackNames, data \in Payloads :
            LET opened == handleReadySignal(Manager, rands)
                later == send(Issued(opened, nextCall), callbackName, data,
                              nextCall, rand)
            IN /\ opened.messageQueue = <<>>
               /\ CallsOf(CallScripts(later.injected)) =
                    CallsOf(CallScripts(injected)) \o CallsOf(messageQueue)
                      \o <<nextCall>>

\* two calls are queued behind the closed gate of a mounted content view
\* and a third is about to be issued
AtomicFlushWitness ==
  /\ ~isWebViewReady
  /\ webViewRef
  /\ CallsOf(messageQueue) = <<1, 2>>
  /\ nextCall = 3
  /\ \A rands \in RandSeqs(2), rand \in RandPool :
       CallsOf(CallScripts(
         send(Issued(handleReadySignal(Manager, rands), 3), "onFormInit", "d1", 3,
              rand).injected)) = <<1, 2, 3>>

\* C19 (end-to-end queued call): sendFormInit before readiness queues the
\* call; the readiness signal dispatches every queued call under a requestId
\* minted at that moment; and a response tagged with the requestId of a
\* queued call settles the promise of that call, with the carried result, or
\* with the carried error when there is one.
QueuedCallEndToEnd ==
  /\ (~isWebViewReady /\ nextCall <= MaxCalls) =>
       \A rand \in RandPool :
          LET sent == sendFormInit(Issued(Manager, nextCall),
                                   [formType |-> "survey1"], nextCall, rand)
          IN /\ ~sent.threw
             /\ sent.manager.messageQueue =
                  Append(messageQueue, [callbackName |-> "onFormInit",
                                        data |-> [formType |-> "survey1"],
                                        call |-> nextCall])
             /\ sent.manager.promise[nextCall].state = "pending"
  /\ (~isWebViewReady /\ webViewRef) =>
       \A rands \in RandSeqs(Len(messageQueue)), result \in Results, error \in Errors :
          LET opened == handleWebViewMessage(Manager, ReadyEvent, rands).manager
          IN \A i \in 1..Len(messageQueue) :
               LET c == messageQueue[i].call
                   requestId == MintRequestId(rands[i])
                   answered == handleWebViewMessage(
                                 opened, ResponseEvent(NoToken, requestId, result, error),
                                 <<>>).manager
               IN /\ \E k \in 1..Len(opened.injected) :
                       /\ opened.injected[k].kind = "call"
                       /\ opened.injected[k].call = c
                       /\ opened.injected[k].requestId = requestId
                  /\ answered.promise[c] = Answered(promise, c, result, error)

\* C20 (channel destruction): the step in which the content view is
\* unmounted rejects every outstanding pending request with the reset
\* error and empties the table, as reset() does to them.
UnmountRejectsPending ==
  [][(webViewRef /\ ~webViewRef') =>
       /\ pendingRequests' = EmptyMap
       /\ \A k \in DOMAIN pendingRequests :
            /\ promise'[pendingRequests[k].call].state = "rejected"
            /\ promise'[pendingRequests[k].call].value = ResetReason]_vars

\* messages of every kind handleWebViewMessage tells apart, with a type
ClassifiedEvents ==
  {ReadyEvent} \cup ConsoleEvents \cup ActionEvents
    \cup {ResponseEvent(f[1], f[2], "r1", Undefined) : f \in ResponseFields}
    \cup {[json |-> TRUE,
           value |-> [type |-> console \o <<"X">>, messageId |-> ActionMessageId]]}

\* the classification the claim gives: what a message of this type is
\* handed to handleIncomingAction as (nothing: the empty sequence)
RoutedAsAction(event, reserved) ==
  IF reserved
  THEN <<>>
  ELSE <<[type |-> event.value.type, data |-> RestPayload(event.value),
          messageId |-> Field(event.value, "messageId", NoToken)]>>

CallScriptReportsOnce ==
  \A i \in 1..Len(injected) :
    injected[i].kind = "call" =>
      /\ \A remote \in RemoteBehaviours :
           LET posted == RunCallScript(injected[i], remote)
           IN /\ Len(posted) = 1
              /\ posted[1].json
              /\ posted[1].value.type = response
              /\ posted[1].value.requestId = injected[i].requestId
              /\ ~remote.defined =>
                   /\ "error" \in DOMAIN posted[1].value
                   /\ "result" \notin DOMAIN posted[1].value
      /\ \A thrown \in RemoteBehaviours, rejected \in RemoteBehaviours :
           (thrown.settles = "throws" /\ rejected.settles = "rejects"
              /\ thrown.value = rejected.value) =>
             /\ RunCallScript(injected[i], thrown) = RunCallScript(injected[i], rejected)
             /\ "error" \in DOMAIN RunCallScript(injected[i], thrown)[1].value
             /\ "result" \notin DOMAIN RunCallScript(injected[i], thrown)[1].value

\* a step of the component as far as the bootstrap is concerned
FocusReplayStep ==
  /\ \A focused \in BOOLEAN, script \in {"consoleLogScript", "full"} :
       LET effect == FocusEffect(focused, script)
       IN /\ effect.replayed =>
               /\ ~formulusDefined
               /\ hasLoadedOnce
               /\ script = "full"
               /\ focused
          /\ formulusDefined =>
               /\ ~effect.replayed
               /\ effect.formulusDefined
  /\ (~formulusDefined /\ formulusDefined') =>
       \/ LoadEnd
       \/ /\ FocusChanges \/ ScriptRead
          /\ hasLoadedOnce
          /\ injectionScript' = "full"
          /\ isFocused'

\* C23 (focus re-injection): the focus effect replays the bootstrap script
\* only when the formulus surface is missing, the view is focused, the first
\* load has ended and the bootstrap script has been read; when the surface
\* exists it replays nothing; and a missing surface comes back only through
\* a page load or through such a replay.
FocusReplayOnlyIfMissing == [][FocusReplayStep]_vars

\* the first load has ended, the bootstrap script has been read, the
\* content process was reset while the view was out of focus, and the
\* return of focus replays the bootstrap
FocusReplayWitness ==
  /\ webViewRef
  /\ ~isFocused
  /\ hasLoadedOnce
  /\ injectionScript = "full"
  /\ ~formulusDefined
  /\ FocusEffect(TRUE, injectionScript).replayed

\* the step in which the host application returns to the foreground
BecomesActive == AppStateChanges /\ appState' = "active"

\* C24 as stated: the focus notification is triggered only while the content
\* is loaded and the gate is open, and it leaves the gate, the queue and the
\* table as they are.
FocusNotificationOnlyWhenOpen ==
  [][BecomesActive =>
       /\ hasLoadedOnce
       /\ isWebViewReady
       /\ UNCHANGED <<isWebViewReady, messageQueue, pendingRequests>>]_vars

\* C24 amended: the focus notification is triggered on every return of the
\* host application to the foreground while the component is mounted,
\* whatever the gate and the load; handleReceiveFocus leaves the gate, the
\* queue, the table, the timers, the promises and the injected scripts as
\* they are.
FocusNotificationChangesNothing ==
  [][/\ handleReceiveFocus(Manager) = Manager
     /\ (webViewRef /\ appState = "background") => ENABLED BecomesActive
     /\ BecomesActive =>
          /\ webViewRef
          /\ UNCHANGED <<isWebViewReady, messageQueue, pendingRequests, timers,
                         promise, injected>>]_vars

\* the host application is in the background; behind the closed gate of a
\* mounted component whose content has not finished loading, two calls are
\* queued
FocusNotificationWitness ==
  /\ appState = "background"
  /\ webViewRef
  /\ ~hasLoadedOnce
  /\ ~isWebViewReady
  /\ Len(messageQueue) = 2
  /\ ENABLED BecomesActive

TokenlessResponses ==
  {ResponseEvent(NoToken, NoToken, result, error) : result \in Results, error \in Errors}
    \cup {[json |-> TRUE, value |-> [type |-> response, result |-> "r1"]],
          [json |-> TRUE, value |-> [type |-> response, error |-> "E"]]}

\* C26 (response without a token): a message of type 'response' with neither
\* messageId nor requestId is logged with a warning and discarded: the
\* table, the timers, the promises, the queue, the gate and the injected
\* scripts stay as they are, nothing is thrown, and nothing is handed to
\* handleIncomingAction.
TokenlessResponseDiscarded ==
  \A event \in TokenlessResponses :
    LET outcome == handleWebViewMessage(Manager, event, <<>>)
    IN /\ outcome.manager = Manager
       /\ outcome.routed = <<>>
       /\ outcome.sink = "warn"
       /\ ~outcome.threw

\* two calls are pending and a third is queued when a response without a
\* token can arrive
TokenlessResponseWitness ==
  /\ webViewRef
  /\ Cardinality(DOMAIN pendingRequests) = 2
  /\ Len(messageQueue) = 1
  /\ \A k \in DOMAIN pendingRequests : promise[pendingRequests[k].call].state = "pending"
  /\ <<NoToken, NoToken>> \in ResponseFields

\* C27 (error field decides): a matching response that carries an error
\* field, whatever string it holds and whatever the result field, rejects
\* the call's promise with that error; a matching response without an error
\* field resolves it with the carried result.
ErrorFieldAlwaysRejects ==
  \A k \in DOMAIN pendingRequests, result \in Results \cup {Undefined},
     error \in Errors :
    LET c == pendingRequests[k].call
        m == handleWebViewMessage(Manager, ResponseEvent(NoToken, k, result, error),
                                  <<>>).manager
    IN promise[c].state = "pending" =>
         IF error # Undefined
         THEN /\ m.promise[c].state = "rejected"
              /\ m.promise[c].value = <<error>>
         ELSE /\ m.promise[c].state = "resolved"
              /\ m.promise[c].value = <<result>>

\* C28 (result or error, never both): a response envelope built for an
\* inbound action carries a result only when the handler returned, and then
\* no error; it carries an error only when the handler threw or rejected or
\* when there is no handler, and then no result; no injected envelope carries
\* both.
ResultXorError ==
  /\ \A i \in 1..Len(injected) :
       injected[i].kind = "response" =>
         injected[i].result = Undefined \/ injected[i].error = NoError
  /\ \A a \in actions, outcome \in HandlerOutcomes :
       LET p == resumeIncomingAction(injected, a, outcome).responsePayload
       IN p # <<>> =>
            /\ p[1].result # Undefined => outcome.kind = "returned" /\ p[1].error = NoError
            /\ p[1].error # NoError => outcome.kind = "threw" /\ p[1].result = Undefined
            /\ outcome.kind = "returned" => p[1].result = outcome.result
            /\ outcome.kind = "threw" => p[1].error # NoError
  /\ \A event \in ActionEvents :
       LET outcome == handleWebViewMessage(Manager, event, <<>>)
           a == outcome.routed[1]
           picked == PickHandler(a.type, a.data, a.messageId)
           inj == respond(<<>>, a.type, a.messageId, Undefined, picked.error)
       IN (outcome.routed # <<>> /\ picked.handler = NoHandler) =>
            /\ picked.error # NoError
            /\ inj # <<>> => inj[1].result = Undefined /\ inj[1].error = picked.error

\* a handler is awaited for an action with a messageId while an envelope of
\* an earlier call is already in the content view
ResultXorErrorWitness ==
  /\ webViewRef
  /\ \E a \in actions : a.messageId # NoToken /\ a.handler = onRequestCamera
  /\ Len(injected) = 1
  /\ pendingRequests # EmptyMap

\* the calls of resolveFormOperation made for an operation
ResolutionsOf(operationId) ==
  SelectSeq(modal.resolutions,
            LAMBDA r : r.by = "operation" /\ r.key = operationId)

\* C29 (one resolution per operation): over any sequence of handleSubmission
\* (success or failure) and handleClose calls, resolveFormOperation is called
\* at most once for a form operation; once a submission outcome has been
\* reported for it, closing the modal does not resolve it again as cancelled.
OperationResolvedAtMostOnce ==
  \A n \in 1..MaxOperations : Len(ResolutionsOf(OperationIdOf(n))) <= 1

\* what handleSubmission reports for a call: the resolutions it adds to
\* those already made
ReportedBy(m, after) == SubSeq(after.resolutions, Len(m.resolutions) + 1,
                               Len(after.resolutions))

\* the one completion result handleSubmission owes a call, by operation id
\* when the closure holds one and by form type otherwise
CompletionResult(s, status, observationId) ==
  [by |-> IF s.currentOperationId # Null THEN "operation" ELSE "type",
   key |-> IF s.currentOperationId # Null THEN s.currentOperationId ELSE s.formType,
   status |-> status, observationId |-> observationId]

\* the create or update succeeded
RepositorySucceeded(s, outcome) ==
  /\ outcome.kind = "returned"
  /\ IF s.currentObservationId # Null THEN outcome.updateSuccess
     ELSE outcome.newId \notin {Null, ""}

\* C30 (update or create, and failure): handleSubmission updates the existing
\* record when the modal holds a currentObservationId and creates a new one
\* otherwise, and reports 'form_updated' resp. 'form_submitted' with the
\* resulting observation id; when the repository is unavailable or the create
\* or update fails it reports one completion result with status 'error',
\* clears the submitting flag and rethrows, and reports no success.
SubmissionOutcome ==
  /\ modal.visible =>
       \A formType \in FormTypes :
         LET s == handleSubmissionCall(modal, formType, nextSubmission)
             failed == handleSubmissionCatch([modal EXCEPT !.isSubmitting = TRUE], s,
                                             "Database repository not available")
         IN /\ s.call = IF modal.currentObservationId # Null
                        THEN "updateObservation" ELSE "saveObservation"
            /\ s.currentObservationId = modal.currentObservationId
            /\ ReportedBy(modal, failed.modal) = <<CompletionResult(s, "error", Null)>>
            /\ ~failed.modal.isSubmitting
            /\ failed.threw # <<>> /\ failed.returned = <<>>
  /\ \A s \in submissions, outcome \in RepositoryOutcomes :
       LET settled == handleSubmissionTry(modal, s, outcome)
       IN IF RepositorySucceeded(s, outcome)
          THEN /\ ReportedBy(modal, settled.modal) =
                    <<IF s.call = "updateObservation"
                      THEN CompletionResult(s, "form_updated", s.currentObservationId)
                      ELSE CompletionResult(s, "form_submitted", outcome.newId)>>
               /\ settled.returned = <<IF s.call = "updateObservation"
                                       THEN s.currentObservationId ELSE outcome.newId>>
               /\ settled.threw = <<>>
          ELSE /\ ReportedBy(modal, settled.modal) = <<CompletionResult(s, "error", Null)>>
               /\ ~settled.modal.isSubmitting
               /\ settled.threw # <<>> /\ settled.returned = <<>>

\* an update of an existing record and a creation are both awaiting the
\* repository
SubmissionOutcomeWitness ==
  /\ \E s \in submissions : s.call = "updateObservation" /\ s.currentOperationId # Null
  /\ \E s \in submissions : s.call = "saveObservation"
  /\ modal.isSubmitting

\* form data without a form type: the field is absent, undefined or ''
FormDataWithoutType ==
  {[observationId |-> "obs1"],
   [formType |-> Undefined, observationId |-> "obs1"],
   [formType |-> "", observationId |-> "obs1"]}

\* C33 (form init without a form type): sendFormInit with form data lacking a
\* formType throws synchronously and changes nothing: nothing is queued, no
\* pending request is registered, no timer is armed, nothing is injected and
\* no promise is created, with the gate open or closed.
FormInitWithoutTypeThrows ==
  nextCall <= MaxCalls =>
    \A formData \in FormDataWithoutType, rand \in RandPool :
      LET sent == sendFormInit(Manager, formData, nextCall, rand)
      IN /\ sent.threw
         /\ sent.manager.messageQueue = messageQueue
         /\ sent.manager.pendingRequests = pendingRequests
         /\ sent.manager.timers = timers
         /\ sent.manager.injected = injected
         /\ sent.manager.promise = promise
         /\ sent.manager.isWebViewReady = isWebViewReady

\* the gate is open, one call is pending and another one can still be made
FormInitWithoutTypeWitness ==
  /\ isWebViewReady /\ webViewRef
  /\ nextCall = 2
  /\ Cardinality(DOMAIN pendingRequests) = 1
  /\ Cardinality(timers) = 1
  /\ Len(injected) = 1

\* the calls waiting in the queue
Queued == {messageQueue[i].call : i \in 1..Len(messageQueue)}

QueuedHasNoDeadlineStep ==
  \A c \in Queued :
    /\ \A t \in timers : t.handle # c
    /\ \A k \in DOMAIN pendingRequests : pendingRequests[k].call # c
    /\ promise[c].state = "pending"
    /\ promise'[c].value # TimeoutReason("onFormInit")
    /\ (\E i \in 1..Len(messageQueue') : messageQueue'[i].call = c) =>
         /\ \A t \in timers' : t.handle # c
         /\ promise'[c].state = "pending"
    /\ (isWebViewReady' /\ \A i \in 1..Len(messageQueue') : messageQueue'[i].call # c) =>
         \E t \in timers' : /\ t.handle = c
                            /\ t.deadline = now + REQUEST_TIMEOUT
                            /\ now' = now

\* C35 (a queued call has no deadline): while a call waits in the queue no
\* timer is armed for it, it is in no entry of the table and it is not
\* rejected, in particular not with a timeout; the step that dispatches it
\* by the flush arms its timer with the deadline 30 seconds after that step.
QueuedHasNoDeadline == [][QueuedHasNoDeadlineStep]_vars

\* two calls wait behind the closed gate after time has passed, while the
\* timer of an earlier, dispatched call is armed
QueuedHasNoDeadlineWitness ==
  /\ ~isWebViewReady
  /\ Len(messageQueue) = 2
  /\ now = REQUEST_TIMEOUT
  /\ \E t \in timers : t.deadline = REQUEST_TIMEOUT

\* the armed timers whose callback looks up the entry k
TimersFor(k) == {t \in timers : t.requestId = k}

\* C36 (one timer per entry): every entry of the table has exactly one armed
\* deadline timer, the one it holds as its timeout; a deadline timer that
\* fires for a requestId that is no longer in the table rejects nothing and
\* changes nothing but its own disappearance.
OneTimerPerEntry ==
  /\ \A k \in DOMAIN pendingRequests :
       /\ Cardinality(TimersFor(k)) = 1
       /\ \A t \in TimersFor(k) : t.handle = pendingRequests[k].timeout
  /\ \A t \in timers :
       t.requestId \notin DOMAIN pendingRequests =>
         timeoutCallback(Manager, t) = [Manager EXCEPT !.timers = @ \ {t}]

\* C37 (flush without a content view): when the gate opens while the content
\* view reference is absent, the flush empties the queue; the queued calls
\* are dispatched oldest first (the i-th requestId minted goes to the i-th
\* queued call) and each is rejected once with the transport-unavailable
\* error; none stays queued or in the table, nothing is injected, and the
\* gate is open afterwards.
FlushWithoutViewRejectsAll ==
  (~isWebViewReady /\ ~webViewRef) =>
    \A rands \in RandSeqs(Len(messageQueue)) :
      LET m == setWebViewReady(Manager, TRUE, rands)
      IN /\ m.messageQueue = <<>>
         /\ m.isWebViewReady
         /\ m.injected = injected
         /\ \A i \in 1..Len(messageQueue) :
              LET c == messageQueue[i].call
              IN /\ promise[c].state = "pending"
                 /\ m.promise[c] = [state |-> "rejected", value |-> TransportReason,
                                    settles |-> 1]
                 /\ \A k \in DOMAIN m.pendingRequests : m.pendingRequests[k].call # c
                 /\ \E t \in m.timers :
                      t.handle = c /\ t.requestId = <<rands[i], now>>
         /\ \A c \in Calls \ Queued : m.promise[c] = promise[c]

\* three calls wait behind the closed gate and the content view reference is
\* absent
FlushWithoutViewWitness ==
  /\ ~isWebViewReady
  /\ ~webViewRef
  /\ Len(messageQueue) = 3

\* the injections made for a call
InjectionsOf(c) ==
  {i \in 1..Len(injected) : injected[i].kind = "call" /\ injected[i].call = c}

\* the requestIds minted for a call, as far as the state still shows them
RequestIdsOf(c) ==
  {injected[i].requestId : i \in InjectionsOf(c)}
    \cup {t.requestId : t \in {u \in timers : u.handle = c}}
    \cup {k \in DOMAIN pendingRequests : pendingRequests[k].call = c}

AtMostOnceDispatchStep ==
  /\ \A c \in Calls :
       /\ Cardinality(InjectionsOf(c)) <= 1
       /\ Cardinality(RequestIdsOf(c)) <= 1
       /\ Cardinality({t \in timers : t.handle = c}) <= 1
  /\ \A c \in Queued : RequestIdsOf(c) = {}
  /\ \A i, j \in 1..Len(messageQueue) :
       i # j => messageQueue[i].call # messageQueue[j].call
  /\ \A i \in 1..Len(NewlyInjected) :
       NewlyInjected[i].kind = "call" =>
         NewlyInjected[i].call \in Queued \/ promise[NewlyInjected[i].call].state = "unissued"
  /\ \A t \in timers' \ timers :
       t.handle \in Queued \/ promise[t.handle].state = "unissued"

\* C38 (at-most-once dispatch): over any sequence of events, repeated
\* readiness signals, timeouts and reset followed by a new readiness signal
\* included, a send() call is injected at most once and gets at most one
\* requestId; a step injects or arms a timer only for a call that is queued
\* or just being made, so a call already dispatched, timed out or dropped
\* by reset is never injected again.
AtMostOnceDispatch == [][AtMostOnceDispatchStep]_vars

\* the first call timed out, the second was rejected by reset, and the
\* third, queued after the reset, was injected by a new readiness signal
AtMostOnceDispatchWitness ==
  /\ promise[1].value = TimeoutReason("onFormInit")
  /\ promise[2].value = ResetReason
  /\ promise[3].state = "pending"
  /\ isWebViewReady
  /\ Injected = {1, 2, 3}
  /\ DOMAIN pendingRequests = {injected[3].requestId}

\* the requestIds of the calls that a reset rejected
PreResetIds ==
  {injected[i].requestId :
     i \in {j \in 1..Len(injected) :
              injected[j].kind = "call" /\ promise[injected[j].call].value = ResetReason}}

\* C39 (fresh after reset): reset leaves the gate closed and the queue and
\* the table empty; calls made afterwards are queued and the next readiness
\* signal dispatches them in FIFO order; a late response tagged with the
\* requestId of a call rejected by the reset settles no call.
FreshAfterReset ==
  /\ LET m == reset(Manager)
     IN /\ ~m.isWebViewReady /\ m.messageQueue = <<>> /\ m.pendingRequests = EmptyMap
        /\ nextCall <= MaxCalls =>
             \A rand \in RandPool :
               LET sent == send(Issued(m, nextCall), "onFormInit", "d1", nextCall, rand)
               IN /\ CallsOf(sent.messageQueue) = <<nextCall>>
                  /\ sent.injected = m.injected
                  /\ sent.pendingRequests = EmptyMap
  /\ (~isWebViewReady /\ webViewRef) =>
       \A rands \in RandSeqs(Len(messageQueue)) :
         LET m == handleReadySignal(Manager, rands)
         IN CallsOf(SubSeq(m.injected, Len(injected) + 1, Len(m.injected)))
              = CallsOf(messageQueue)
  /\ \A id \in PreResetIds, result \in Results, error \in Errors :
       handleWebViewMessage(Manager, ResponseEvent(NoToken, id, result, error),
                            <<>>).manager.promise = promise

\* a call that was dispatched (its deadline timer was armed) and is unsettled
DispatchedUnsettled(c) ==
  /\ promise[c].state = "pending"
  /\ \E t \in timers : t.handle = c

Settled(c) == promise[c].state \in {"resolved", "rejected"}

\* C34 (every dispatched call settles): under fair timer firing every call
\* dispatched while the gate is open eventually settles, and no entry stays
\* in the table forever.
DispatchedEventuallySettles ==
  /\ \A c \in Calls : DispatchedUnsettled(c) ~> Settled(c)
  /\ \A rand \in RandPool, tick \in 0..MaxTicks :
       (<<rand, tick * REQUEST_TIMEOUT>> \in DOMAIN pendingRequests)
         ~> (<<rand, tick * REQUEST_TIMEOUT>> \notin DOMAIN pendingRequests)

\* the envelope e answers the in-flight action a with the outcome of a's
\* handler
Answers(e, a, outcome) ==
  e = ExpectedResponse(a, OutcomeResult(outcome), OutcomeError(outcome))

InFlightIsolationStep ==
  /\ \A a \in actions, outcome \in HandlerOutcomes :
       LET resumed == resumeIncomingAction(injected, a, outcome)
       IN /\ a.messageId = NoToken => resumed.injected = injected
          /\ (a.messageId # NoToken /\ webViewRef) =>
               /\ Len(resumed.injected) = Len(injected) + 1
               /\ SubSeq(resumed.injected, 1, Len(injected)) = injected
               /\ Answers(resumed.injected[Len(resumed.injected)], a, outcome)
               /\ \A b \in actions \ {a} :
                    resumed.injected[Len(resumed.injected)].messageId # b.messageId
  /\ \A i \in 1..Len(NewlyInjected) :
       NewlyInjected[i].kind = "response" =>
         \/ \E a \in actions \ actions', outcome \in HandlerOutcomes :
              Answers(NewlyInjected[i], a, outcome)
         \/ /\ nextAction' = nextAction + 1
            /\ NewlyInjected[i].messageId = MessageIdOf(nextAction)
            /\ NewlyInjected[i].result = Undefined
            /\ \E type \in ActionTypes :
                 /\ NewlyInjected[i].error = <<"No handler for message type ", type>>
                 /\ NewlyInjected[i].type =
                      type \o <<"_", "r", "e", "s", "p", "o", "n", "s", "e">>
  /\ (actions' # actions \/ nextAction' # nextAction) =>
       /\ isWebViewReady' = isWebViewReady
       /\ messageQueue' = messageQueue
       /\ pendingRequests' = pendingRequests
       /\ timers' = timers
       /\ promise' = promise

\* C40 (in-flight isolation): with several inbound actions in flight whose
\* handlers finish in any order, every response envelope carries the
\* messageId and the verb of the inbound message whose handler produced its
\* result, never the messageId of another action in flight; receiving an
\* action and resuming after its handler change neither the gate, nor the
\* queue, nor the table.
InFlightIsolation == [][InFlightIsolationStep]_vars

\* the handlers of the first and the third action are still awaited while
\* the second action has been answered, and a call is pending in the table
InFlightIsolationWitness ==
  /\ {a.n : a \in actions} = {1, 3}
  /\ \A a \in actions : a.messageId # NoToken
  /\ \E i \in 1..Len(injected) :
       injected[i].kind = "response" /\ injected[i].messageId = MessageIdOf(2)
  /\ pendingRequests # EmptyMap

(* ----------------------- the rendered UI schema ----------------------- *)
\* the UI schema handleFormInitByNative works on: without a form schema the
\* received one is ignored
ReceivedUISchema(initData) ==
  IF initData.formSchema THEN initData.uiSchema ELSE NoSchema

\* the elements of a sequence that are not Finalize elements, in order
WithoutFinalize(elements) == SelectSeq(elements, LAMBDA e : e.type # "Finalize")

\* the root pages the renderer is to show for a received UI schema: the
\* root elements of a SwipeLayout root without its Finalize elements, every
\* other root as one page, none for a null schema
OriginalPages(uiSchema) ==
  IF uiSchema = NoSchema THEN <<>>
  ELSE IF uiSchema.type = "SwipeLayout"
  THEN IF "elements" \in DOMAIN uiSchema
       THEN WithoutFinalize(uiSchema.elements) ELSE <<>>
  ELSE <<uiSchema>>

\* a SwipeLayout root whose elements are the pages followed by one Finalize
SwipeRootWithFinalizeLast(rendered, pages) ==
  /\ rendered # NoSchema
  /\ rendered.type = "SwipeLayout"
  /\ "elements" \in DOMAIN rendered
  /\ rendered.elements = Append(pages, FinalizeElement)
  /\ Cardinality({k \in DOMAIN rendered.elements :
                    rendered.elements[k].type = "Finalize"}) = 1

\* C32: for every UI schema received in onFormInit, the schema handed to
\* the renderer has a root of type SwipeLayout whose elements hold exactly
\* one Finalize element, placed last, after the other original root
\* elements in their original order
RenderedRootIsSwipeLayout ==
  player.formInitData # NoInitData =>
    SwipeRootWithFinalizeLast(player.uischema,
                              OriginalPages(ReceivedUISchema(player.formInitData)))

\* the same for the received UI schemas that are null or carry an elements
\* array
RenderedRootOfWellFormed ==
  (/\ player.formInitData # NoInitData
   /\ LET uiSchema == ReceivedUISchema(player.formInitData)
      IN uiSchema = NoSchema \/ "elements" \in DOMAIN uiSchema
                            \/ uiSchema.type # "SwipeLayout") =>
    SwipeRootWithFinalizeLast(player.uischema,
                              OriginalPages(ReceivedUISchema(player.formInitData)))

(* ------------------ the callback behind the readiness ------------------ *)
\* what the page posts in this step
NewlyPosted ==
  IF Len(player'.posted) > Len(player.posted)
  THEN SubSeq(player'.posted, Len(player.posted) + 1, Len(player'.posted))
  ELSE <<>>

\* a step in which the page posts the readiness signal
PostsReadiness == \E k \in DOMAIN NewlyPosted : NewlyPosted[k] = ReadyEvent

\* a step in which the page, with the App mounted, runs an injected call
\* script
RunsScriptWhileMounted == player.mounted /\ player'.ran = player.ran + 1

\* the answer of a call script that did not find its callback
NotFoundAnswer(script) ==
  PostedError(script.requestId, CallbackNotFound(script.callbackName))

CallbackDefinedStep ==
  /\ PostsReadiness => player'.onFormInit
  /\ player.mounted => player.onFormInit
  /\ RunsScriptWhileMounted =>
       LET script == InjectedCalls[player'.ran]
       IN /\ NewlyPosted # <<>>
          /\ NewlyPosted[Len(NewlyPosted)] = PostedResult(script.requestId, Undefined)
          /\ \A k \in DOMAIN NewlyPosted : NewlyPosted[k] # NotFoundAnswer(script)

\* C31: window.onFormInit is assigned when the readiness signal is posted
\* and stays assigned while the App is mounted, so every onFormInit script
\* the host dispatches after the readiness signal and the page runs while
\* the App is mounted finds the callback and is answered by its result,
\* never by 'Callback onFormInit not found'
CallbackDefinedAfterReadiness == [][CallbackDefinedStep]_vars

\* the App, mounted once and never unmounted, has run an injected onFormInit
\* script dispatched through the gate its readiness signal opened, and the
\* host has received the answer
CallbackDefinedWitness ==
  /\ player.mounted
  /\ player.mounts = 1
  /\ isWebViewReady
  /\ player.ran >= 1
  /\ player.formInitData # NoInitData
  /\ player.posted = <<>>
====
